---- MODULE Spec2Model ----
(***************************************************************************)
(* The new-user waterfall of generate_new_user_waterfall.py: one run of    *)
(* main() against a data store, with the completion checks and             *)
(* compare_and_remove of push_csv_queries.py and execute_query of          *)
(* sql_utils.py.                                                           *)
(*                                                                         *)
(* User rows are Python dicts shared by reference between base_users, the  *)
(* remaining list and the extracted lists.  The model keeps them in one    *)
(* heap, users, and every list is a sequence of references (indices of     *)
(* the heap).                                                              *)
(***************************************************************************)
EXTENDS Integers, Sequences, FiniteSets, TLC

\* ------------------------------------------------------------------ bounds
MaxUsers == 2        \* rows the fetch returns, at most (user ids are 1..MaxUsers)
MaxLookupErrors == 1 \* queries of one target shoe lookup of a run that fail
MaxActivities == 3   \* activity records a layer 3 run fetches, at most

\* A user_id that Python treats as false (None, ''): compare_and_remove skips it.
EmptyId == 0

UserIds == 1..MaxUsers

VARIABLES
    db_users,            \* store: user_id of the rows the fetch query selects, in order
    db_closet,           \* store: ids with a row in inventory_items
    db_bio,              \* store: ids with a non-blank bio
    db_offers,           \* store: ids with a row in offers
    db_wishlist,         \* store: ids with a live row in wishlist_items
    dry_run,             \* args.dry_run
    pc,                  \* position in main()
    users,               \* heap of the user dicts of base_users
    remaining_users,     \* main's remaining_users (references)
    extraction_results,  \* main's extraction_results
    last_check,          \* the last completion check: its argument, query result, return
    last_lookup,         \* the last target shoe lookup of the run: its caller, argument, return
    lookup_call,         \* a call of get_top_target_shoe_for_users by itself: input, queries, return
    check_call,          \* a call of a completion check by itself: argument, queries, return
    layer_3,             \* a run of generate_layer_3_push_csvs.py: position, input, results
    layer_2,             \* a call of match_users_to_highest_ranked_products: input, return
    ab_tests,            \* a call of identify_ab_tests: the campaigns, their test ids
    phase_1,             \* step 3 of the phase 1 extraction: messages, tasks, records
    files,               \* names of the files written so far
    validation_passed,   \* main's validation_passed (meaningful from pc = "report" on)
    metrics_report,      \* the run summary written to waterfall-metrics-*.json
    exit_code,           \* -1 while running, 0 normal return, 1 sys.exit(1)
    failed               \* history: steps whose storage query failed (0 = fetch, 1..4)

vars == <<db_users, db_closet, db_bio, db_offers, db_wishlist, dry_run,
          pc, users, remaining_users, extraction_results, last_check,
          last_lookup, lookup_call, check_call, layer_3, layer_2, ab_tests, phase_1, files, validation_passed, metrics_report,
          exit_code, failed>>

store == <<db_users, db_closet, db_bio, db_offers, db_wishlist>>

\* What a run of the waterfall never touches.
calls == <<lookup_call, check_call, layer_3, layer_2, ab_tests, phase_1>>

\* The state of a run of the waterfall.
run == <<pc, users, remaining_users, extraction_results, last_check, last_lookup,
         files, validation_passed, metrics_report, exit_code, failed>>

\* ----------------------------------------------------------------- helpers
Range(s) == {s[i] : i \in 1..Len(s)}

SeqsUpTo(S, n) == UNION {[1..m -> S] : m \in 0..n}

RECURSIVE SumSeq(_)
SumSeq(s) == IF s = <<>> THEN 0 ELSE Head(s) + SumSeq(Tail(s))

\* user['user_id'] of a reference
UserId(r) == users[r].user_id

IdsOf(list) == {UserId(r) : r \in Range(list)}

IdList(list) == [i \in 1..Len(list) |-> UserId(list[i])]

\* Python truthiness of a user_id
Truthy(id) == id # EmptyId

\* ------------------------------------------------------------ sql_utils.py
\* execute_query: the rows, or None when the connection or the query fails
\* (it never raises).
execute_query(db_ok, rows) ==
    IF db_ok THEN [isNone |-> FALSE, rows |-> rows]
    ELSE [isNone |-> TRUE, rows |-> {}]

\* ------------------------------------------------------ push_csv_queries.py
\* get_new_users_in_window: len(None) raises inside the try, the except
\* returns [].
get_new_users_in_window(db_ok) ==
    LET result == execute_query(db_ok, db_users)
    IN  IF result.isNone THEN <<>> ELSE result.rows

\* The rows of "SELECT DISTINCT user_id FROM <table> WHERE user_id = ANY(ids)".
QueryRows(user_ids, have) == {id \in Range(user_ids) : id \in have}

\* Mutant: the dict holds the ids of the query result only.
completion_map_of_rows(user_ids, result) ==
    [id \in result.rows |-> TRUE]

\* The body shared by the four check_users_*_completion functions: the dict
\* returned for a query result (iterating None raises inside the try, the
\* except returns False for every id).
completion_map(user_ids, result) ==
    IF result.isNone
    THEN [id \in Range(user_ids) |-> FALSE]
    ELSE [id \in Range(user_ids) |-> id \in result.rows]

check_users_completion(user_ids, have, db_ok) ==
    IF user_ids = <<>> THEN [id \in {} |-> FALSE]
    ELSE completion_map(user_ids, execute_query(db_ok, QueryRows(user_ids, have)))

\* Mutant: one query for each user of the list.
completion_queries_per_user(user_ids, db_ok) ==
    [i \in 1..Len(user_ids) |-> [user_ids |-> <<user_ids[i]>>, failed |-> ~db_ok]]

\* The calls of execute_query a completion check makes: none for an empty
\* list, else the one call of the try block, with the whole list as its
\* parameter.
completion_queries(user_ids, db_ok) ==
    IF user_ids = <<>> THEN <<>>
    ELSE <<[user_ids |-> user_ids, failed |-> ~db_ok]>>

check_users_closet_completion(user_ids, db_ok) ==
    check_users_completion(user_ids, db_closet, db_ok)

\* Mutant: the bio check reads the offers table.
check_users_bio_completion_reads_offers(user_ids, db_ok) ==
    check_users_completion(user_ids, db_offers, db_ok)

check_users_bio_completion(user_ids, db_ok) ==
    check_users_completion(user_ids, db_bio, db_ok)

check_users_offer_completion(user_ids, db_ok) ==
    check_users_completion(user_ids, db_offers, db_ok)

check_users_wishlist_completion(user_ids, db_ok) ==
    check_users_completion(user_ids, db_wishlist, db_ok)

\* Mutant: the removal is forgotten.
compare_and_remove_keeps_all(remaining, extracted) == remaining

\* Mutant: the filter keeps the extracted users instead of the others.
compare_and_remove_inverted(remaining, extracted) ==
    IF remaining = <<>> THEN <<>>
    ELSE IF extracted = <<>> THEN remaining
    ELSE LET extracted_ids == {id \in IdsOf(extracted) : Truthy(id)}
         IN  SelectSeq(remaining, LAMBDA r : UserId(r) \in extracted_ids)

compare_and_remove(remaining, extracted) ==
    IF remaining = <<>> THEN <<>>
    ELSE IF extracted = <<>> THEN remaining
    ELSE LET extracted_ids == {id \in IdsOf(extracted) : Truthy(id)}
         IN  SelectSeq(remaining, LAMBDA r : UserId(r) \notin extracted_ids)

\* ------------------------------------------- generate_new_user_waterfall.py
\* ---- get_top_target_shoe_for_users
\* The four sources, in the order the function asks them.
SourceName == <<"desired_item", "recent_offer", "wishlist_item",
                "comprehensive_offer_target">>

\* A source is the rows it holds: a function from the user ids it holds a
\* row for to the product variant of the row.
NoRows == [id \in {} |-> "variant"]

NoSources == [k \in 1..4 |-> NoRows]

AllOk == [k \in 1..4 |-> TRUE]

\* p.name of the product of a variant (the products table).
ProductName(variant) ==
    CASE variant = "variant" -> "shoe"
      [] variant = "variant_desired" -> "desired shoe"
      [] variant = "variant_offer" -> "offered shoe"
      [] variant = "variant_wishlist" -> "wishlist shoe"
      [] OTHER -> "Unknown Product"

\* The row the query on source k returns for a user.
SourceRow(k, id, src) ==
    [user_id |-> id,
     product_variant_id |-> src[k][id],
     product_name |-> ProductName(src[k][id]),
     source |-> SourceName[k]]

\* The state of a lookup: the dict built so far and the queries issued.
NoLookup == [target_shoes |-> <<>>, queries |-> <<>>]

\* Mutant: a fallback asks for every user of the call.
users_needing_fallback_all(user_ids, target_shoes) == user_ids

\* [uid for uid in user_ids if uid not in target_shoes]
users_needing_fallback(user_ids, target_shoes) ==
    SelectSeq(user_ids, LAMBDA uid : uid \notin DOMAIN target_shoes)

\* Lines 107-111: target_shoes = {item['user_id']: item for item in
\* primary_results}; a None result raises before the assignment.
primary_lookup(user_ids, src, ok) ==
    LET result == execute_query(ok[1], QueryRows(user_ids, DOMAIN src[1]))
    IN  [target_shoes |->
             IF result.isNone THEN NoLookup.target_shoes
             ELSE [id \in result.rows |-> SourceRow(1, id, src)],
         queries |-> <<[source |-> 1, user_ids |-> user_ids, failed |-> result.isNone]>>]

\* Lines 114-147 (and 150-183, 186-221): the fallback on source k, asked for
\* the users the dict does not hold; target_shoes[item['user_id']] = item for
\* each row.
fallback_lookup(lookup, user_ids, k, src, ok) ==
    LET needing == users_needing_fallback(user_ids, lookup.target_shoes)
        result == execute_query(ok[k], QueryRows(needing, DOMAIN src[k]))
    IN  IF needing = <<>> THEN lookup
        ELSE [target_shoes |->
                  IF result.isNone THEN lookup.target_shoes
                  ELSE [id \in DOMAIN lookup.target_shoes \cup result.rows |->
                           IF id \in result.rows THEN SourceRow(k, id, src)
                           ELSE lookup.target_shoes[id]],
              queries |-> Append(lookup.queries,
                                 [source |-> k, user_ids |-> needing,
                                  failed |-> result.isNone])]

\* The whole call: src[k] is the rows source k holds, ok[k]
\* the outcome of the query on source k if it is issued.
top_target_shoe_lookup(user_ids, src, ok) ==
    IF user_ids = <<>> THEN NoLookup
    ELSE fallback_lookup(
             fallback_lookup(
                 fallback_lookup(primary_lookup(user_ids, src, ok),
                                 user_ids, 2, src, ok),
                 user_ids, 3, src, ok),
             user_ids, 4, src, ok)

get_top_target_shoe_for_users(user_ids, src, ok) ==
    top_target_shoe_lookup(user_ids, src, ok).target_shoes

\* Mutant: the users who completed the step are extracted.
extracted_by_completed(remaining, completion) ==
    LET completed_user_ids == {id \in DOMAIN completion : completion[id]}
    IN  SelectSeq(remaining, LAMBDA r : UserId(r) \in completed_user_ids)

\* [user for user in remaining_users if user['user_id'] in no_<step>_user_ids]
extracted_by(remaining, completion) ==
    LET no_completion_user_ids == {id \in DOMAIN completion : ~completion[id]}
    IN  SelectSeq(remaining, LAMBDA r : UserId(r) \in no_completion_user_ids)

\* Mutant: tagging a user resets its fetched fields.
assign_level_clears_fetched(extracted, level) ==
    [r \in DOMAIN users |->
        IF r \in Range(extracted)
        THEN [users[r] EXCEPT !.new_user_level = level,
                              !.fetched = <<"fields of user", EmptyId>>]
        ELSE users[r]]

\* for user in extracted_users: user['new_user_level'] = level
assign_level(extracted, level) ==
    [r \in DOMAIN users |->
        IF r \in Range(extracted)
        THEN [users[r] EXCEPT !.new_user_level = level]
        ELSE users[r]]

\* Mutant: the level is written to every user of the run.
assign_level_and_target_everyone(extracted, level, target_shoes) ==
    [r \in DOMAIN users |->
        [users[r] EXCEPT
            !.new_user_level = level,
            !.top_target_shoe =
                IF UserId(r) \in DOMAIN target_shoes
                THEN target_shoes[UserId(r)].product_name ELSE "None",
            !.target_variantID =
                IF UserId(r) \in DOMAIN target_shoes
                THEN target_shoes[UserId(r)].product_variant_id ELSE "None"]]

\* Mutant: a user the lookup holds nothing for is left as it is.
assign_level_and_target_found_only(extracted, level, target_shoes) ==
    [r \in DOMAIN users |->
        IF r \in Range(extracted) /\ UserId(r) \in DOMAIN target_shoes
        THEN [users[r] EXCEPT
                 !.new_user_level = level,
                 !.top_target_shoe = target_shoes[UserId(r)].product_name,
                 !.target_variantID = target_shoes[UserId(r)].product_variant_id]
        ELSE users[r]]

\* levels 3 to 5: the level, and the target shoe fields (None when the lookup
\* holds nothing for the user)
assign_level_and_target(extracted, level, target_shoes) ==
    [r \in DOMAIN users |->
        IF r \in Range(extracted)
        THEN [users[r] EXCEPT
                 !.new_user_level = level,
                 !.top_target_shoe =
                     IF UserId(r) \in DOMAIN target_shoes
                     THEN target_shoes[UserId(r)].product_name ELSE "None",
                 !.target_variantID =
                     IF UserId(r) \in DOMAIN target_shoes
                     THEN target_shoes[UserId(r)].product_variant_id ELSE "None"]
        ELSE users[r]]

\* The value an extraction step returns, and the heap it leaves.
StepResult(extracted, new_remaining, heap) ==
    [extracted |-> extracted, new_remaining |-> new_remaining, heap |-> heap]

extract_level_1_no_shoes(remaining, db_ok) ==
    IF remaining = <<>> THEN StepResult(<<>>, <<>>, users)
    ELSE LET closet_completion == check_users_closet_completion(IdList(remaining), db_ok)
             extracted_users == extracted_by(remaining, closet_completion)
         IN  StepResult(extracted_users,
                        compare_and_remove(remaining, extracted_users),
                        assign_level(extracted_users, 1))

\* Mutant: step 2 checks the whole population again, not the list it was
\* given.
extract_level_2_whole_population(remaining, db_ok) ==
    IF remaining = <<>> THEN StepResult(<<>>, <<>>, users)
    ELSE LET base_users == [i \in 1..Len(users) |-> i]
             bio_completion == check_users_bio_completion(IdList(base_users), db_ok)
             extracted_users == extracted_by(base_users, bio_completion)
         IN  StepResult(extracted_users,
                        compare_and_remove(remaining, extracted_users),
                        assign_level(extracted_users, 2))

extract_level_2_no_bio(remaining, db_ok) ==
    IF remaining = <<>> THEN StepResult(<<>>, <<>>, users)
    ELSE LET bio_completion == check_users_bio_completion(IdList(remaining), db_ok)
             extracted_users == extracted_by(remaining, bio_completion)
         IN  StepResult(extracted_users,
                        compare_and_remove(remaining, extracted_users),
                        assign_level(extracted_users, 2))

extract_level_3_no_offers(remaining, db_ok, src, ok) ==
    IF remaining = <<>> THEN StepResult(<<>>, <<>>, users)
    ELSE LET offer_completion == check_users_offer_completion(IdList(remaining), db_ok)
             extracted_users == extracted_by(remaining, offer_completion)
             target_shoes == get_top_target_shoe_for_users(IdList(extracted_users), src, ok)
         IN  StepResult(extracted_users,
                        compare_and_remove(remaining, extracted_users),
                        assign_level_and_target(extracted_users, 3, target_shoes))

extract_level_4_no_wishlist(remaining, db_ok, src, ok) ==
    IF remaining = <<>> THEN StepResult(<<>>, <<>>, users)
    ELSE LET wishlist_completion == check_users_wishlist_completion(IdList(remaining), db_ok)
             extracted_users == extracted_by(remaining, wishlist_completion)
             target_shoes == get_top_target_shoe_for_users(IdList(extracted_users), src, ok)
         IN  StepResult(extracted_users,
                        compare_and_remove(remaining, extracted_users),
                        assign_level_and_target(extracted_users, 4, target_shoes))

\* Mutant: level 5 extracts the first remaining user only.
extract_level_5_first_only(remaining, src, ok) ==
    IF remaining = <<>> THEN StepResult(<<>>, <<>>, users)
    ELSE LET extracted_users == <<remaining[1]>>
             target_shoes == get_top_target_shoe_for_users(IdList(extracted_users), src, ok)
         IN  StepResult(extracted_users,
                        compare_and_remove(remaining, extracted_users),
                        assign_level_and_target(extracted_users, 5, target_shoes))

extract_level_5_new_stars(remaining, src, ok) ==
    IF remaining = <<>> THEN StepResult(<<>>, <<>>, users)
    ELSE LET extracted_users == remaining
             target_shoes == get_top_target_shoe_for_users(IdList(extracted_users), src, ok)
         IN  StepResult(extracted_users,
                        compare_and_remove(remaining, extracted_users),
                        assign_level_and_target(extracted_users, 5, target_shoes))

\* ---- validate_waterfall_integrity
\* [initial_count] + [data['remaining_after'] for each level]
remaining_counts(res) ==
    <<res.initial_count>> \o
        [k \in 1..Len(res.extractions) |-> res.extractions[k].remaining_after]

\* Mutant: the comparison is strict.
is_monotonic_strict(res) ==
    LET counts == remaining_counts(res)
    IN  \A i \in 1..(Len(counts) - 1) : counts[i] > counts[i + 1]

is_monotonic(res) ==
    LET counts == remaining_counts(res)
    IN  \A i \in 1..(Len(counts) - 1) : counts[i] >= counts[i + 1]

total_extracted(res) ==
    SumSeq([k \in 1..Len(res.extractions) |-> res.extractions[k].extracted_count])

full_coverage(res) ==
    res.initial_count = total_extracted(res) + Len(res.final_remaining)

\* The disjointness loop from level k on, all_extracted_ids being the ids
\* collected so far: a level that overlaps is reported and not collected.
RECURSIVE disjoint_from(_, _, _)
disjoint_from(extractions, k, all_extracted_ids) ==
    IF k > Len(extractions) THEN TRUE
    ELSE LET level_ids == IdsOf(extractions[k].extracted_users)
             overlap == all_extracted_ids \cap level_ids
         IN  IF overlap # {}
             THEN FALSE
             ELSE disjoint_from(extractions, k + 1, all_extracted_ids \cup level_ids)

validate_waterfall_integrity(res) ==
    /\ is_monotonic(res)
    /\ full_coverage(res)
    /\ disjoint_from(res.extractions, 1, {})

\* ---- file names (without the timestamp)
ProdFile(k) ==
    <<"no-shoes-new-user", "no-bio-new-user", "no-offers-new-user",
      "no-wishlist-new-user", "new-stars-new-user">>[k]

TestFile(k) ==
    <<"no-shoes-new-user-test", "no-bio-new-user-test", "no-offers-new-user-test",
      "no-wishlist-new-user-test", "new-stars-new-user-test">>[k]

ResidualFile == "residual-remaining"

MetricsFile == "waterfall-metrics"

\* ------------------------------------------------------------ initial state
\* User ids are opaque keys, only ever compared for equality, so the
\* populations are taken up to a renaming of the ids: the ids of a population
\* appear in the order 1, 2, ... of their first occurrence.  An id may occur
\* in several rows (the fetch LEFT JOINs user_activities).
Canonical(s) ==
    \A i \in 1..Len(s) : s[i] <= Cardinality({s[j] : j \in 1..(i - 1)}) + 1

Populations == {s \in SeqsUpTo(UserIds, MaxUsers) : Canonical(s)}

NoCheck == [fn |-> "none", user_ids |-> <<>>, isNone |-> FALSE, rows |-> {},
            completion |-> [id \in {} |-> FALSE], queries |-> <<>>]

NoLookupCall == [level |-> 0, user_ids |-> <<>>, found |-> {}, failed |-> FALSE]

\* No run of the layer 3 script.
NoLayer3 == [stage |-> "none", activity_data |-> <<>>, prioritized_actions |-> <<>>,
             enriched_data |-> <<>>, filtered_data |-> <<>>]

\* No call of the layer 2 matching.
NoLayer2 == [returned |-> FALSE, user_data |-> <<>>, trending_products |-> <<>>,
             final_users |-> <<>>]

\* No call of identify_ab_tests.
NoAbTests == [returned |-> FALSE, campaigns_df |-> <<>>]

\* No run of the phase 1 extraction.
NoPhase1 == [stage |-> "none", no_parallel |-> FALSE, messages |-> <<>>,
             histories |-> <<>>, futures |-> <<>>, processed_data |-> <<>>]

\* No call of the lookup by itself.
NoCall == [user_ids |-> <<>>, src |-> NoSources, ok |-> AllOk, returned |-> FALSE,
           target_shoes |-> <<>>, queries |-> <<>>]

NoResults == [initial_count |-> 0, extractions |-> <<>>, final_remaining |-> <<>>,
              generated_files |-> <<>>]

\* The state of a run before main() starts.
RunStart ==
    /\ pc = "fetch"
    /\ users = <<>>
    /\ remaining_users = <<>>
    /\ extraction_results = NoResults
    /\ last_check = NoCheck
    /\ last_lookup = NoLookupCall
    /\ lookup_call = NoCall
    /\ check_call = NoCheck
    /\ layer_3 = NoLayer3
    /\ layer_2 = NoLayer2
    /\ ab_tests = NoAbTests
    /\ phase_1 = NoPhase1
    /\ files = {}
    /\ validation_passed = FALSE
    /\ metrics_report = <<>>
    /\ exit_code = -1
    /\ failed = {}

\* The store holds facts about the users of the population only: every query
\* of the run filters by the ids of the run.  A user without a closet item is
\* extracted by the first check that is made, and a user without a bio by the
\* second one at the latest: no later query is about them, and the store
\* holds no further fact about them.
StoreOver(ids) ==
    /\ db_closet \in SUBSET ids
    /\ db_bio \in SUBSET db_closet
    /\ db_offers \in SUBSET db_bio
    /\ db_wishlist \in SUBSET db_bio

Init ==
    /\ db_users \in Populations
    /\ StoreOver(Range(db_users))
    /\ dry_run \in BOOLEAN
    /\ RunStart

\* ------------------------------------------------------------------ main()
\* db_ok is the outcome of the storage query an action issues: any query may
\* fail.  A step entered with nothing remaining issues none.
\* What a completion check called with user_ids did.
CheckCall(fn, user_ids, have, db_ok) ==
    LET result == execute_query(db_ok, QueryRows(user_ids, have))
    IN  [fn |-> fn, user_ids |-> user_ids, isNone |-> result.isNone,
         rows |-> result.rows,
         completion |-> check_users_completion(user_ids, have, db_ok),
         queries |-> completion_queries(user_ids, db_ok)]

\* The other fields the fetch selects for a user (username, first_name,
\* user_size, created_at, last_active), as one value.
FetchedFields(id) == <<"fields of user", id>>

\* A row of the fetch: the fetched fields; the fields the run adds are not
\* set yet.
NewUser(id) ==
    [user_id |-> id, fetched |-> FetchedFields(id), new_user_level |-> 0,
     top_target_shoe |-> "unset", target_variantID |-> "unset"]

\* Mutant: remaining_after records the size of the extracted list.
Recorded_extracted_as_remaining(step) ==
    [extraction_results EXCEPT !.extractions = Append(@,
        [extracted_users |-> step.extracted,
         extracted_count |-> Len(step.extracted),
         remaining_after |-> Len(step.extracted)])]

\* extraction_results['extractions'][level] = {...}
Recorded(step) ==
    [extraction_results EXCEPT !.extractions = Append(@,
        [extracted_users |-> step.extracted,
         extracted_count |-> Len(step.extracted),
         remaining_after |-> Len(step.new_remaining)])]

\* Lines 664-684: the fetch, the early return on an empty population, the
\* tracking variables.
Fetch(db_ok) ==
    /\ pc = "fetch"
    /\ LET base_users == get_new_users_in_window(db_ok)
       IN  IF base_users = <<>>
           THEN /\ pc' = "done"
                /\ exit_code' = 0
                /\ UNCHANGED <<users, remaining_users, extraction_results>>
           ELSE /\ pc' = "level_1"
                /\ users' = [i \in 1..Len(base_users) |-> NewUser(base_users[i])]
                /\ remaining_users' = [i \in 1..Len(base_users) |-> i]
                /\ extraction_results' =
                       [NoResults EXCEPT !.initial_count = Len(base_users)]
                /\ UNCHANGED exit_code
    /\ failed' = IF db_ok THEN failed ELSE failed \cup {0}
    /\ UNCHANGED <<store, dry_run, calls, last_check, last_lookup, files, validation_passed, metrics_report>>

\* Mutant: the list a step leaves is dropped, the next step gets the input
\* of this one.
LevelFrame_drops_new_remaining(level, step, queried, db_ok) ==
    /\ users' = step.heap
    /\ remaining_users' = remaining_users
    /\ extraction_results' = Recorded(step)
    /\ failed' = IF queried /\ ~db_ok THEN failed \cup {level} ELSE failed
    /\ UNCHANGED <<store, dry_run, calls, files, validation_passed, metrics_report, exit_code>>

\* The part of a level action that is the same for every level.
LevelFrame(level, step, queried, db_ok) ==
    /\ users' = step.heap
    /\ remaining_users' = step.new_remaining
    /\ extraction_results' = Recorded(step)
    /\ failed' = IF queried /\ ~db_ok THEN failed \cup {level} ELSE failed
    /\ UNCHANGED <<store, dry_run, calls, files, validation_passed, metrics_report, exit_code>>

\* Lines 689-695
Level1(db_ok) ==
    /\ pc = "level_1"
    /\ remaining_users = <<>> => db_ok
    /\ LevelFrame(1, extract_level_1_no_shoes(remaining_users, db_ok),
                  remaining_users # <<>>, db_ok)
    /\ last_check' = IF remaining_users = <<>> THEN last_check
                     ELSE CheckCall("closet", IdList(remaining_users), db_closet, db_ok)
    /\ pc' = "level_2"
    /\ UNCHANGED last_lookup

\* Mutant: step 2 calls its completion check whatever the list holds.
Level2_checks_anyway(db_ok) ==
    /\ pc = "level_2"
    /\ LevelFrame(2, extract_level_2_no_bio(remaining_users, db_ok), TRUE, db_ok)
    /\ last_check' = CheckCall("bio", IdList(remaining_users), db_bio, db_ok)
    /\ pc' = "level_3"
    /\ UNCHANGED last_lookup

\* Lines 697-703
Level2(db_ok) ==
    /\ pc = "level_2"
    /\ remaining_users = <<>> => db_ok
    /\ LevelFrame(2, extract_level_2_no_bio(remaining_users, db_ok),
                  remaining_users # <<>>, db_ok)
    /\ last_check' = IF remaining_users = <<>> THEN last_check
                     ELSE CheckCall("bio", IdList(remaining_users), db_bio, db_ok)
    /\ pc' = "level_3"
    /\ UNCHANGED last_lookup

\* The sources a lookup for ids may meet in a run: the users that hold a row
\* hold it in the same source k (and in the comprehensive search when k is
\* the recent-offer query, which that search extends), all rows with the same
\* product variant.  The store being the same for the whole run, the offer
\* sources hold rows for users the offer check finds and the wishlist source
\* for users the wishlist check finds.  No source matches an empty user_id.
SourceHolders(ids, k) ==
    SUBSET {id \in ids : /\ id # EmptyId
                         /\ k \in {2, 4} => id \in db_offers
                         /\ k = 3 => id \in db_wishlist}

TargetSources(ids) ==
    UNION {{[j \in 1..4 |->
                [id \in (IF j = k \/ (j = 4 /\ k = 2) THEN holders ELSE {}) |-> "variant"]] :
            holders \in SourceHolders(ids, k)} : k \in 1..4}

\* The outcomes of the queries of a lookup: any query may fail.
LookupOutcomes ==
    {ok \in [1..4 -> BOOLEAN] : Cardinality({k \in 1..4 : ~ok[k]}) <= MaxLookupErrors}

\* What a target shoe lookup called by a level with user_ids did: the ids it
\* returned a row for, and whether one of its queries failed.
LookupCall(level, user_ids, src, ok) ==
    LET lookup == top_target_shoe_lookup(user_ids, src, ok)
    IN  [level |-> level, user_ids |-> user_ids,
         found |-> DOMAIN get_top_target_shoe_for_users(user_ids, src, ok),
         failed |-> \E q \in 1..Len(lookup.queries) : lookup.queries[q].failed]

\* Mutant: step 3 asks the lookup about every user it was given.
Level3_looks_up_remaining(db_ok) ==
    /\ pc = "level_3"
    /\ remaining_users = <<>> => db_ok
    /\ \E src \in TargetSources(IdsOf(remaining_users)), ok \in LookupOutcomes :
           /\ LevelFrame(3, extract_level_3_no_offers(remaining_users, db_ok, src, ok),
                         remaining_users # <<>>, db_ok)
           /\ last_lookup' = IF remaining_users = <<>> THEN last_lookup
                             ELSE LookupCall(3, IdList(remaining_users), src, ok)
    /\ last_check' = IF remaining_users = <<>> THEN last_check
                     ELSE CheckCall("offer", IdList(remaining_users), db_offers, db_ok)
    /\ pc' = "level_4"

\* Lines 705-711
Level3(db_ok) ==
    /\ pc = "level_3"
    /\ remaining_users = <<>> => db_ok
    /\ LET extracted == extract_level_3_no_offers(remaining_users, db_ok,
                                                  NoSources, AllOk).extracted
       IN  \E src \in TargetSources(IdsOf(extracted)), ok \in LookupOutcomes :
               /\ LevelFrame(3, extract_level_3_no_offers(remaining_users, db_ok, src, ok),
                             remaining_users # <<>>, db_ok)
               /\ last_lookup' = IF remaining_users = <<>> THEN last_lookup
                                 ELSE LookupCall(3, IdList(extracted), src, ok)
    /\ last_check' = IF remaining_users = <<>> THEN last_check
                     ELSE CheckCall("offer", IdList(remaining_users), db_offers, db_ok)
    /\ pc' = "level_4"

\* Lines 713-719
Level4(db_ok) ==
    /\ pc = "level_4"
    /\ remaining_users = <<>> => db_ok
    /\ LET extracted == extract_level_4_no_wishlist(remaining_users, db_ok,
                                                    NoSources, AllOk).extracted
       IN  \E src \in TargetSources(IdsOf(extracted)), ok \in LookupOutcomes :
               /\ LevelFrame(4, extract_level_4_no_wishlist(remaining_users, db_ok, src, ok),
                             remaining_users # <<>>, db_ok)
               /\ last_lookup' = IF remaining_users = <<>> THEN last_lookup
                                 ELSE LookupCall(4, IdList(extracted), src, ok)
    /\ last_check' = IF remaining_users = <<>> THEN last_check
                     ELSE CheckCall("wishlist", IdList(remaining_users), db_wishlist, db_ok)
    /\ pc' = "level_5"

\* Lines 721-729: level 5 binds its second result to final_remaining, not to
\* remaining_users.
Level5 ==
    /\ pc = "level_5"
    /\ \E src \in TargetSources(IdsOf(remaining_users)), ok \in LookupOutcomes :
           LET step == extract_level_5_new_stars(remaining_users, src, ok)
           IN  /\ users' = step.heap
               /\ extraction_results' =
                      [Recorded(step) EXCEPT !.final_remaining = step.new_remaining]
               /\ last_lookup' = IF remaining_users = <<>> THEN last_lookup
                                 ELSE LookupCall(5, IdList(remaining_users), src, ok)
    /\ pc' = "generate"
    /\ UNCHANGED <<store, dry_run, calls, remaining_users, last_check, files,
                   validation_passed, metrics_report, exit_code, failed>>

\* Lines 731-733
DryRunReturn ==
    /\ pc = "generate"
    /\ dry_run
    /\ pc' = "done"
    /\ exit_code' = 0
    /\ UNCHANGED <<store, dry_run, calls, users, remaining_users, extraction_results,
                   last_check, last_lookup, files, validation_passed, metrics_report, failed>>

\* Mutant: the files are written whatever --dry_run says.
GenerateFiles_ignores_dry_run ==
    /\ pc = "generate"
    /\ files' = files \cup {ProdFile(k) : k \in {j \in 1..5 :
                   extraction_results.extractions[j].extracted_users # <<>>}}
    /\ pc' = "validate"
    /\ UNCHANGED <<store, dry_run, calls, users, remaining_users,
                   extraction_results, last_check, last_lookup, validation_passed,
                   metrics_report, exit_code, failed>>

\* Lines 735-778: the production CSVs of the levels that hold users, the
\* test CSVs of the levels with extracted_count > 0, the residual file.
GenerateFiles ==
    /\ pc = "generate"
    /\ ~dry_run
    /\ LET ex == extraction_results.extractions
           final_remaining == extraction_results.final_remaining
           with_users == SelectSeq(<<1, 2, 3, 4, 5>>,
                             LAMBDA k : ex[k].extracted_users # <<>>)
           with_count == SelectSeq(<<1, 2, 3, 4, 5>>,
                             LAMBDA k : ex[k].extracted_count > 0)
           production == [i \in 1..Len(with_users) |->
                             [path |-> ProdFile(with_users[i]),
                              count |-> Len(ex[with_users[i]].extracted_users),
                              is_test |-> FALSE]]
           tests == [i \in 1..Len(with_count) |->
                        [path |-> TestFile(with_count[i]), count |-> 1, is_test |-> TRUE]]
           residual == IF final_remaining # <<>>
                       THEN <<[path |-> ResidualFile, count |-> Len(final_remaining),
                               is_test |-> FALSE]>>
                       ELSE <<>>
           generated == production \o tests \o residual
       IN  /\ extraction_results' =
                  [extraction_results EXCEPT !.generated_files = @ \o generated]
           /\ files' = files \cup {generated[i].path : i \in 1..Len(generated)}
    /\ pc' = "validate"
    /\ UNCHANGED <<store, dry_run, calls, users, remaining_users, last_check, last_lookup,
                   validation_passed, metrics_report, exit_code, failed>>

\* Lines 780-781
Validate ==
    /\ pc = "validate"
    /\ validation_passed' = validate_waterfall_integrity(extraction_results)
    /\ pc' = "report"
    /\ UNCHANGED <<store, dry_run, calls, users, remaining_users, extraction_results,
                   last_check, last_lookup, files, metrics_report, exit_code, failed>>

\* Mutant: the run ends normally whatever the validator said.
Report_exits_normally ==
    /\ pc = "report"
    /\ LET ex == extraction_results.extractions
       IN  metrics_report' =
               <<[initial_users |-> extraction_results.initial_count,
                  extractions |-> [k \in 1..Len(ex) |->
                                      [count |-> ex[k].extracted_count,
                                       remaining_after |-> ex[k].remaining_after]],
                  final_remaining |-> Len(extraction_results.final_remaining),
                  generated_files |-> extraction_results.generated_files,
                  validation_passed |-> validation_passed]>>
    /\ files' = files \cup {MetricsFile}
    /\ exit_code' = 0
    /\ pc' = "done"
    /\ UNCHANGED <<store, dry_run, calls, users, remaining_users, extraction_results,
                   last_check, last_lookup, validation_passed, failed>>

\* Lines 783-809: the metrics report, then the normal end or sys.exit(1).
Report ==
    /\ pc = "report"
    /\ LET ex == extraction_results.extractions
       IN  metrics_report' =
               <<[initial_users |-> extraction_results.initial_count,
                  extractions |-> [k \in 1..Len(ex) |->
                                      [count |-> ex[k].extracted_count,
                                       remaining_after |-> ex[k].remaining_after]],
                  final_remaining |-> Len(extraction_results.final_remaining),
                  generated_files |-> extraction_results.generated_files,
                  validation_passed |-> validation_passed]>>
    /\ files' = files \cup {MetricsFile}
    /\ exit_code' = IF validation_passed THEN 0 ELSE 1
    /\ pc' = "done"
    /\ UNCHANGED <<store, dry_run, calls, users, remaining_users, extraction_results,
                   last_check, last_lookup, validation_passed, failed>>

Next ==
    \/ \E db_ok \in BOOLEAN : Fetch(db_ok)
    \/ \E db_ok \in BOOLEAN : Level1(db_ok)
    \/ \E db_ok \in BOOLEAN : Level2(db_ok)
    \/ \E db_ok \in BOOLEAN : Level3(db_ok)
    \/ \E db_ok \in BOOLEAN : Level4(db_ok)
    \/ Level5
    \/ DryRunReturn
    \/ GenerateFiles
    \/ Validate
    \/ Report

Spec == Init /\ [][Next]_vars

\* ---------------------------------------------------------- the run's output
\* All five levels have run.
Complete == Len(extraction_results.extractions) = 5

Tier(k) == extraction_results.extractions[k].extracted_users

Residual == extraction_results.final_remaining

\* The five tier lists and the residual list.
OutputLists == <<Tier(1), Tier(2), Tier(3), Tier(4), Tier(5), Residual>>

Occurrences(r, list) == Cardinality({i \in 1..Len(list) : list[i] = r})

\* The level of the first onboarding step a user has not completed, in the
\* order closet, bio, offers, wishlist; 5 when all four are completed.
FirstIncomplete(id) ==
    IF id \notin db_closet THEN 1
    ELSE IF id \notin db_bio THEN 2
    ELSE IF id \notin db_offers THEN 3
    ELSE IF id \notin db_wishlist THEN 4
    ELSE 5

\* C1: after a complete run every row of the initial population is in exactly
\* one of the five tier lists or the residual list, exactly once, and every
\* user id of the population is in exactly one of the six lists.
C1_Partition ==
    Complete =>
        /\ \A r \in DOMAIN users :
               SumSeq([k \in 1..6 |-> Occurrences(r, OutputLists[k])]) = 1
        /\ \A id \in Range(db_users) :
               Cardinality({k \in 1..6 : id \in IdsOf(OutputLists[k])}) = 1

C1_Witness ==
    /\ pc = "done"
    /\ Complete
    /\ Len(users) = 2
    /\ Tier(1) # <<>>
    /\ Tier(4) # <<>>

\* C2: when no storage query failed, a complete run puts each user in the
\* tier of the first onboarding step the user has not completed, and tags the
\* user with that level.
C2_TierFunction ==
    (Complete /\ failed = {}) =>
        \A r \in DOMAIN users :
            /\ \A k \in 1..5 : (r \in Range(Tier(k))) <=> (k = FirstIncomplete(UserId(r)))
            /\ users[r].new_user_level = FirstIncomplete(UserId(r))

C2_Witness ==
    /\ pc = "done"
    /\ Complete
    /\ failed = {}
    /\ \E r1, r2 \in DOMAIN users :
           /\ users[r1].new_user_level = 3
           /\ users[r2].new_user_level = 5

\* ------------------------------------------------- the ten-entity scenario
ScenarioUsers == <<1, 2, 3, 4, 5, 6, 7, 8, 9, 10>>

\* Runs over the ten entities: each store set is the one of the scenario
\* among the entities still in play, read either as the entities that have
\* the item or as those that lack it, with either nothing or everything for
\* the entities peeled off before.
InitScenario ==
    /\ db_users = ScenarioUsers
    /\ db_closet \in {{1, 2, 3}, 4..10}
    /\ \E part \in {{4, 5}, 6..10}, before \in {{}, 1..3} : db_bio = part \cup before
    /\ \E part \in {{6}, 7..10}, before \in {{}, 1..5} : db_offers = part \cup before
    /\ \E part \in {{7, 8}, 9..10}, before \in {{}, 1..6} : db_wishlist = part \cup before
    /\ dry_run \in BOOLEAN
    /\ RunStart

SpecScenario == InitScenario /\ [][Next]_vars

\* The output the scenario expects.
ScenarioOutput ==
    /\ IdList(Tier(1)) = <<1, 2, 3>>
    /\ IdList(Tier(2)) = <<4, 5>>
    /\ IdList(Tier(3)) = <<6>>
    /\ IdList(Tier(4)) = <<7, 8>>
    /\ IdList(Tier(5)) = <<9, 10>>
    /\ Residual = <<>>
    /\ (pc = "done" /\ ~dry_run) => (validation_passed /\ exit_code = 0)

\* C3 as stated: the sets of the scenario are the entities for which the
\* predicate is true.
ScenarioPredicateTrue ==
    /\ db_users = ScenarioUsers
    /\ db_closet = {1, 2, 3}
    /\ db_bio \cap (4..10) = {4, 5}
    /\ db_offers \cap (6..10) = {6}
    /\ db_wishlist \cap (7..10) = {7, 8}

\* C3 as amended: the sets of the scenario are the entities for which the
\* predicate is false.
ScenarioPredicateFalse ==
    /\ db_users = ScenarioUsers
    /\ (1..10) \ db_closet = {1, 2, 3}
    /\ (4..10) \ db_bio = {4, 5}
    /\ (6..10) \ db_offers = {6}
    /\ (7..10) \ db_wishlist = {7, 8}

\* The store set the check of level k reads.
Have(k) == <<db_closet, db_bio, db_offers, db_wishlist>>[k]

\* The rows level k was given: the population without the rows of the
\* earlier tiers.
StepInput(k) ==
    LET earlier == UNION {Range(Tier(j)) : j \in 1..(k - 1)}
    IN  SelectSeq([i \in 1..Len(users) |-> i], LAMBDA r : r \notin earlier)

\* C3 (original statement): with "has closet item" true exactly for {1,2,3},
\* "has bio" true for {4,5} among the other seven, "has offer" true for {6}
\* among the other five and "has wishlist" true for {7,8} among the other
\* four, a complete run yields tier1=[1,2,3], tier2=[4,5], tier3=[6],
\* tier4=[7,8], tier5=[9,10], no residual and a validation pass.
C3_AsStated ==
    (Complete /\ failed = {} /\ ScenarioPredicateTrue) => ScenarioOutput

\* C3 (amended): that output is the one of the run in which each predicate is
\* false for the named entities, and in general, while no query fails, each
\* of the steps 1 to 4 extracts the rows of its input for which its predicate
\* is false.
C3_Scenario ==
    /\ (Complete /\ failed = {} /\ ScenarioPredicateFalse) => ScenarioOutput
    /\ failed = {} =>
           \A k \in 1..Len(extraction_results.extractions) :
               k <= 4 =>
                   Tier(k) = SelectSeq(StepInput(k), LAMBDA r : UserId(r) \notin Have(k))

C3_Witness ==
    /\ pc = "done"
    /\ ~dry_run
    /\ failed = {}
    /\ ScenarioPredicateFalse
    /\ ScenarioOutput
    /\ validation_passed

\* ------------------------------------------------------- storage failures
\* The files of level k.
LevelFiles(k) == {ProdFile(k), TestFile(k)}

\* C4: when the storage query of the check of a step fails, the run is marked
\* failed (it does not end with the normal exit status), and the failed check
\* is not read as "false for everyone": no user who has completed the step is
\* put in the step's tier.
C4_FailedCheckSurfaced ==
    \A k \in failed \cap (1..4) :
        /\ pc = "done" => exit_code # 0
        /\ Len(extraction_results.extractions) >= k =>
               \A r \in Range(Tier(k)) : UserId(r) \notin Have(k)

\* C5: when the check of step 2 hits a storage error the run aborts: no file
\* of step 2 or of a later step is written, no validation verdict is
\* reported, and the run does not end with the normal exit status.
C5_Step2ErrorAborts ==
    (2 \in failed /\ ~dry_run) =>
        /\ files \cap UNION {LevelFiles(k) : k \in 2..5} = {}
        /\ metrics_report = <<>>
        /\ pc = "done" => exit_code # 0

\* C6: when the fetch of the population fails, no extraction step runs, no
\* file is written, and the run ends in a failure outcome, not as a normal
\* completion.
C6_FetchFailureAborts ==
    0 \in failed =>
        /\ extraction_results.extractions = <<>>
        /\ files = {}
        /\ pc = "done" => exit_code # 0

\* ------------------------------------------------------------ the validator
MaxValLevels == 2    \* levels of a result structure handed to the validator
MaxValCount == 1     \* counts of such a structure are 0..MaxValCount

\* The user rows the lists of such a structure refer to: rows 1 and 3 hold
\* the same user_id.
ValUsers == <<NewUser(1), NewUser(2), NewUser(1)>>

ValLists == {<<>>, <<1>>, <<2>>, <<3>>, <<1, 2>>}

ValLevels ==
    [extracted_users : ValLists,
     extracted_count : 0..MaxValCount,
     remaining_after : 0..MaxValCount]

\* Any result structure: the counts need not agree with the lists.
InitValidate ==
    /\ db_users = <<>>
    /\ db_closet = {}
    /\ db_bio = {}
    /\ db_offers = {}
    /\ db_wishlist = {}
    /\ dry_run = FALSE
    /\ pc = "validate"
    /\ users = ValUsers
    /\ remaining_users = <<>>
    /\ \E initial_count \in 0..MaxValCount,
          extractions \in SeqsUpTo(ValLevels, MaxValLevels),
          final_remaining \in {list \in ValLists : Len(list) <= MaxValCount} :
           extraction_results =
               [initial_count |-> initial_count, extractions |-> extractions,
                final_remaining |-> final_remaining, generated_files |-> <<>>]
    /\ last_check = NoCheck
    /\ last_lookup = NoLookupCall
    /\ lookup_call = NoCall
    /\ check_call = NoCheck
    /\ layer_3 = NoLayer3
    /\ layer_2 = NoLayer2
    /\ ab_tests = NoAbTests
    /\ phase_1 = NoPhase1
    /\ files = {}
    /\ validation_passed = FALSE
    /\ metrics_report = <<>>
    /\ exit_code = -1
    /\ failed = {}

SpecValidate == InitValidate /\ [][Validate]_vars

\* The three checks, stated on the result structure.
NonIncreasing ==
    LET counts == remaining_counts(extraction_results)
    IN  \A i, j \in 1..Len(counts) : i < j => counts[i] >= counts[j]

Covered ==
    extraction_results.initial_count =
        SumSeq([k \in 1..Len(extraction_results.extractions) |->
                   extraction_results.extractions[k].extracted_count])
        + Len(extraction_results.final_remaining)

PairwiseDisjoint ==
    \A i, j \in 1..Len(extraction_results.extractions) :
        i # j => IdsOf(Tier(i)) \cap IdsOf(Tier(j)) = {}

LevelPc == {"level_1", "level_2", "level_3", "level_4"}

\* A step of levels 1 to 4 taken from this state splits its input.
StepSplits ==
    pc \in LevelPc =>
        LET input == remaining_users
            extracted == extraction_results'.extractions[
                             Len(extraction_results'.extractions)].extracted_users
            rest == remaining_users'
        IN  /\ IdsOf(extracted) \cup IdsOf(rest) = IdsOf(input)
            /\ IdsOf(extracted) \cap IdsOf(rest) = {}
            /\ rest = SelectSeq(input, LAMBDA r : r \notin Range(extracted))

\* C8: a step of levels 1 to 4 returns (extracted, still-remaining) with,
\* by user_id, union the input and intersection empty; still-remaining is
\* the input without the extracted rows, in the input's order.
C8_StepSplits == [][StepSplits]_vars

C8_Witness ==
    /\ pc = "level_5"
    /\ Tier(4) # <<>>
    /\ Len(remaining_users) = 1
    /\ extraction_results.extractions[3].remaining_after = 2

\* C9: the number of users remaining after a step is at most the number
\* remaining before it: the recorded remaining_after values, which are the
\* lengths of the remaining list, never increase.
C9_Monotonic ==
    LET ex == extraction_results.extractions
    IN  /\ \A k \in 1..Len(ex) :
               ex[k].remaining_after <=
                   (IF k = 1 THEN Len(users) ELSE ex[k - 1].remaining_after)
        /\ (Len(ex) \in 1..4) => ex[Len(ex)].remaining_after = Len(remaining_users)
        /\ Complete => ex[5].remaining_after = Len(Residual)

C9_Witness ==
    /\ Complete
    /\ extraction_results.initial_count = 2
    /\ extraction_results.extractions[1].remaining_after = 2
    /\ extraction_results.extractions[3].remaining_after = 1
    /\ extraction_results.extractions[5].remaining_after = 0

\* ------------------------------------------------------ predicate totality
\* C10: a completion check called with a non-empty list returns a mapping
\* whose keys are exactly the ids of the list, one boolean each, and an id
\* absent from the storage result maps to False.
C10_Totality ==
    last_check.fn # "none" =>
        /\ last_check.user_ids # <<>>
        /\ DOMAIN last_check.completion = Range(last_check.user_ids)
        /\ \A id \in Range(last_check.user_ids) :
               /\ last_check.completion[id] \in BOOLEAN
               /\ id \notin last_check.rows => ~last_check.completion[id]

C10_Witness ==
    /\ last_check.fn = "wishlist"
    /\ ~last_check.isNone
    /\ \E a, b \in Range(last_check.user_ids) :
           last_check.completion[a] /\ ~last_check.completion[b]

\* ------------------------------------------------------ the empty population
\* What the run summary says of the validation, when there is one.
ReportedValid == metrics_report # <<>> /\ metrics_report[1].validation_passed

\* C11: a run on an empty initial population yields zero extracted users at
\* every tier, an empty residual list and a validation pass: the validator
\* has run and the run summary says the validation passed.
C11_EmptyPopulationValidates ==
    (pc = "done" /\ db_users = <<>> /\ failed = {} /\ ~dry_run) =>
        /\ \A k \in 1..Len(extraction_results.extractions) : Tier(k) = <<>>
        /\ Residual = <<>>
        /\ ReportedValid

\* ------------------------------------------------------ a failed validation
\* Runs over populations in which a row may hold an empty user_id (one row at
\* most): compare_and_remove leaves such a row in the remaining list, and the
\* validator finds the result broken.
PopulationsAnyIds ==
    {s \in SeqsUpTo(UserIds \cup {EmptyId}, MaxUsers) :
        /\ Cardinality({i \in 1..Len(s) : s[i] = EmptyId}) <= 1
        /\ Canonical(SelectSeq(s, Truthy))}

InitAnyIds ==
    /\ db_users \in PopulationsAnyIds
    /\ StoreOver(Range(db_users) \ {EmptyId})
    /\ dry_run \in BOOLEAN
    /\ RunStart

SpecAnyIds == InitAnyIds /\ [][Next]_vars

\* The files of the lists that hold users.
OutputFiles ==
    UNION {LevelFiles(k) : k \in {j \in 1..5 : Tier(j) # <<>>}}
        \cup (IF Residual # <<>> THEN {ResidualFile} ELSE {})

\* C12: a result the validator finds broken is neither corrected nor
\* discarded.  When the validator has returned, the files of every list that
\* holds users are written; when the run has ended, the run summary is
\* written too, it holds the counts of the result as it is and the verdict of
\* the validator, and the exit status is 1 when the verdict is False and 0
\* when it is True.
C12_ValidationOutcome ==
    /\ pc = "report" => OutputFiles \subseteq files
    /\ (pc = "done" /\ Complete /\ ~dry_run) =>
           /\ OutputFiles \cup {MetricsFile} \subseteq files
           /\ metrics_report # <<>>
           /\ metrics_report[1].validation_passed =
                  validate_waterfall_integrity(extraction_results)
           /\ \A k \in 1..5 :
                  /\ metrics_report[1].extractions[k].count = Len(Tier(k))
                  /\ metrics_report[1].extractions[k].remaining_after =
                         extraction_results.extractions[k].remaining_after
           /\ metrics_report[1].final_remaining = Len(Residual)
           /\ exit_code = (IF metrics_report[1].validation_passed THEN 0 ELSE 1)

C12_Witness ==
    /\ pc = "done"
    /\ exit_code = 1
    /\ metrics_report # <<>>
    /\ ~metrics_report[1].validation_passed
    /\ {ProdFile(1), ProdFile(5), ResidualFile, MetricsFile} \subseteq files

\* ------------------------------------------------------- the target shoe lookup
\* The target shoe fields of a user row are empty (None).
NoTarget(r) ==
    /\ users[r].top_target_shoe = "None"
    /\ users[r].target_variantID = "None"

\* The target shoe fields of a user row hold a product.
HasTarget(r) ==
    /\ users[r].top_target_shoe \notin {"None", "unset"}
    /\ users[r].target_variantID \notin {"None", "unset"}

\* C13: whatever the lookup answers, and whether or not one of its queries
\* fails, every user extracted at level 3, 4 or 5 carries that level and has
\* target shoe fields that are a product or empty; the lookup of a level is
\* called with all the users the level extracted, the users it returned
\* nothing for have empty fields, and a run in which a query of the lookup
\* failed goes on to its normal end.
C13_LookupNeverExcludes ==
    /\ \A k \in 3..5 :
           Len(extraction_results.extractions) >= k =>
               /\ \A r \in Range(Tier(k)) :
                      /\ users[r].new_user_level = k
                      /\ NoTarget(r) \/ HasTarget(r)
               /\ last_lookup.level = k =>
                      /\ last_lookup.user_ids = IdList(Tier(k))
                      /\ \A r \in Range(Tier(k)) :
                             IF UserId(r) \in last_lookup.found
                             THEN HasTarget(r) ELSE NoTarget(r)
    /\ (last_lookup.failed /\ pc = "done") => (Complete /\ exit_code = 0)

C13_Witness ==
    /\ pc = "done"
    /\ ~dry_run
    /\ last_lookup.level = 5
    /\ last_lookup.failed
    /\ \E r \in Range(Tier(5)) : NoTarget(r) /\ users[r].new_user_level = 5
    /\ \E r \in Range(Tier(3)) : HasTarget(r)

\* ---- the lookup by itself
\* The product variant of the rows of each source.
EnrichVariant == <<"variant_desired", "variant_offer", "variant_wishlist",
                   "variant_offer_target">>

\* Any sources over ids; the comprehensive search finds what the recent-offer
\* query finds.
EnrichSources(ids) ==
    {[k \in 1..4 |-> [id \in holders[k] |-> EnrichVariant[k]]] :
     holders \in {h \in [1..4 -> SUBSET ids] : h[2] \subseteq h[4]}}

\* A call of get_top_target_shoe_for_users with any list of ids, against any
\* sources, each of its queries failing or not.
InitEnrich ==
    /\ db_users = <<>>
    /\ db_closet = {}
    /\ db_bio = {}
    /\ db_offers = {}
    /\ db_wishlist = {}
    /\ dry_run = FALSE
    /\ pc = "lookup"
    /\ users = <<>>
    /\ remaining_users = <<>>
    /\ extraction_results = NoResults
    /\ last_check = NoCheck
    /\ last_lookup = NoLookupCall
    /\ \E user_ids \in Populations :
           \E src \in EnrichSources(Range(user_ids)), ok \in [1..4 -> BOOLEAN] :
               lookup_call = [NoCall EXCEPT !.user_ids = user_ids, !.src = src, !.ok = ok]
    /\ check_call = NoCheck
    /\ layer_3 = NoLayer3
    /\ layer_2 = NoLayer2
    /\ ab_tests = NoAbTests
    /\ phase_1 = NoPhase1
    /\ files = {}
    /\ validation_passed = FALSE
    /\ metrics_report = <<>>
    /\ exit_code = -1
    /\ failed = {}

TopTargetShoeCall ==
    /\ pc = "lookup"
    /\ LET call == top_target_shoe_lookup(lookup_call.user_ids, lookup_call.src,
                                          lookup_call.ok)
       IN  lookup_call' =
               [lookup_call EXCEPT
                   !.returned = TRUE,
                   !.target_shoes = get_top_target_shoe_for_users(
                                        lookup_call.user_ids, lookup_call.src,
                                        lookup_call.ok),
                   !.queries = call.queries]
    /\ pc' = "done"
    /\ UNCHANGED <<store, dry_run, check_call, layer_3, layer_2, ab_tests, phase_1,
                   users, remaining_users,
                   extraction_results, last_check, last_lookup, files, validation_passed, metrics_report,
                   exit_code, failed>>

SpecEnrich == InitEnrich /\ [][TopTargetShoeCall]_vars

\* The sources that hold a row for a user, in the call by itself.
Holding(id) == {k \in 1..4 : id \in DOMAIN lookup_call.src[k]}

\* Those of them whose query, when issued, succeeds.
Answering(id) == {k \in Holding(id) : lookup_call.ok[k]}

First(S) == CHOOSE k \in S : \A j \in S : k <= j

\* C14: for a user that holds both a desired-item row and a recent-offer row
\* the lookup returns the row of the desired item, and in general the row
\* returned for a user is the one of the first source, in the order desired
\* item, recent offer, wishlist item, comprehensive offer search, that holds
\* a row for the user.
C14_FallbackOrder ==
    lookup_call.returned =>
        \A id \in Range(lookup_call.user_ids) :
            /\ {1, 2} \subseteq Holding(id) =>
                   /\ id \in DOMAIN lookup_call.target_shoes
                   /\ lookup_call.target_shoes[id].source = "desired_item"
            /\ Holding(id) # {} =>
                   /\ id \in DOMAIN lookup_call.target_shoes
                   /\ lookup_call.target_shoes[id] =
                          SourceRow(First(Holding(id)), id, lookup_call.src)

\* What the lookup does return: the row of the first source that holds a row
\* for the user among the sources whose query did not fail, and nothing when
\* there is none.
FallbackOrderAmongAnswering ==
    lookup_call.returned =>
        /\ DOMAIN lookup_call.target_shoes \subseteq Range(lookup_call.user_ids)
        /\ \A id \in Range(lookup_call.user_ids) :
               IF Answering(id) = {}
               THEN id \notin DOMAIN lookup_call.target_shoes
               ELSE /\ id \in DOMAIN lookup_call.target_shoes
                    /\ lookup_call.target_shoes[id] =
                           SourceRow(First(Answering(id)), id, lookup_call.src)

\* ------------------------------------------------------- the order of the steps
\* The position of main(): 0 at the fetch, k at the call of step k, then the
\* files, the validation, the report, the end.
PcRank ==
    CASE pc = "fetch" -> 0
      [] pc = "level_1" -> 1
      [] pc = "level_2" -> 2
      [] pc = "level_3" -> 3
      [] pc = "level_4" -> 4
      [] pc = "level_5" -> 5
      [] pc = "generate" -> 6
      [] pc = "validate" -> 7
      [] pc = "report" -> 8
      [] OTHER -> 9

\* Every step of a run moves main() forward.  A step taken at the call of
\* extraction step k is step k: steps 1 to k - 1 are recorded and stay as
\* they are, step k is recorded, its input is the list the steps before left
\* (the population without the rows of the tiers 1 to k - 1, as many rows as
\* step k - 1 recorded as remaining), the rows it extracts are rows of that
\* input and, when it returns, they have their target shoe fields (levels 3
\* to 5); main() is then at the call of step k + 1.  No other step of the run
\* records an extraction.
StepOrder ==
    /\ PcRank' > PcRank
    /\ PcRank \notin 1..5 =>
           extraction_results'.extractions = extraction_results.extractions
    /\ PcRank \in 1..5 =>
           LET k == PcRank
               before == extraction_results.extractions
               after == extraction_results'.extractions
           IN  /\ Len(before) = k - 1
               /\ Len(after) = k
               /\ \A j \in 1..(k - 1) : after[j] = before[j]
               /\ remaining_users = StepInput(k)
               /\ k > 1 => Len(remaining_users) = before[k - 1].remaining_after
               /\ Range(after[k].extracted_users) \subseteq Range(remaining_users)
               /\ k >= 3 => \A r \in Range(after[k].extracted_users) :
                                users'[r].top_target_shoe # "unset"
               /\ PcRank' = k + 1

\* C15: the five extraction steps run in the order 1, 2, 3, 4, 5, each once
\* at most, without going back: step k + 1 begins when step k has returned,
\* its enrichment done, and its input is the list step k left.
C15_StepOrder == [][StepOrder]_vars

C15_Witness ==
    /\ pc = "generate"
    /\ Tier(2) # <<>>
    /\ Tier(4) # <<>>
    /\ \A r \in Range(Tier(4)) : HasTarget(r)
    /\ extraction_results.extractions[2].remaining_after = 1

\* ------------------------------------------------------------ the user rows
\* A step of the run writes the level of a user only if the user has none,
\* and then it is the level of the extraction step being run, which extracts
\* the user.
LevelWrittenOnce ==
    \A r \in DOMAIN users :
        users'[r].new_user_level # users[r].new_user_level =>
            /\ users[r].new_user_level = 0
            /\ PcRank \in 1..5
            /\ users'[r].new_user_level = PcRank
            /\ r \in Range(extraction_results'.extractions[PcRank].extracted_users)

\* When a step of the run leaves the rows in place, it leaves their levels.
LevelKept ==
    DOMAIN users' = DOMAIN users =>
        /\ LevelWrittenOnce
        /\ \A r \in DOMAIN users :
               (PcRank \in 1..5
                   /\ r \in Range(extraction_results'.extractions[PcRank].extracted_users))
                   => users'[r].new_user_level = PcRank

\* C16: the level of a user is written once, by the step that extracts the
\* user, and no later step changes it.
C16_LevelAssignedOnce == [][LevelKept]_vars

C16_Witness ==
    /\ pc = "done"
    /\ Complete
    /\ \E r1, r2 \in DOMAIN users :
           /\ users[r1].new_user_level = 1
           /\ users[r2].new_user_level = 5

\* C17: the fetched fields of a user row keep the values the fetch returned
\* for the whole run (the rows are those of the fetch, in its order), and a
\* row holds no other field than the fetched ones and new_user_level,
\* top_target_shoe and target_variantID.
C17_FetchedFieldsKept ==
    /\ (pc # "fetch" /\ failed \cap {0} = {}) => Len(users) = Len(db_users)
    /\ \A r \in DOMAIN users :
           /\ users[r].user_id = db_users[r]
           /\ users[r].fetched = FetchedFields(db_users[r])
           /\ DOMAIN users[r] = {"user_id", "fetched", "new_user_level",
                                 "top_target_shoe", "target_variantID"}

C17_Witness ==
    /\ pc = "done"
    /\ ~dry_run
    /\ \E r1, r2 \in DOMAIN users :
           /\ users[r1].new_user_level = 2
           /\ users[r2].new_user_level = 3
           /\ HasTarget(r2)

\* ------------------------------------------------- the validator's diagnostic
\* The checks a result structure fails: 1 monotonicity, 2 full coverage,
\* 3 disjointness.
FailedChecks(res) ==
    {c \in 1..3 : ~<<is_monotonic(res), full_coverage(res),
                     disjoint_from(res.extractions, 1, {})>>[c]}

\* Three result structures over the rows of ValUsers, each failing one check
\* only.
ProbeNotMonotonic ==
    [initial_count |-> 1,
     extractions |-> <<[extracted_users |-> <<>>, extracted_count |-> 0,
                        remaining_after |-> 0],
                       [extracted_users |-> <<1>>, extracted_count |-> 1,
                        remaining_after |-> 1]>>,
     final_remaining |-> <<>>, generated_files |-> <<>>]

ProbeNotCovered ==
    [initial_count |-> 1, extractions |-> <<>>, final_remaining |-> <<>>,
     generated_files |-> <<>>]

ProbeNotDisjoint ==
    [initial_count |-> 1,
     extractions |-> <<[extracted_users |-> <<1>>, extracted_count |-> 1,
                        remaining_after |-> 0],
                       [extracted_users |-> <<3>>, extracted_count |-> 0,
                        remaining_after |-> 0]>>,
     final_remaining |-> <<>>, generated_files |-> <<>>]

ValidatorProbes == {ProbeNotMonotonic, ProbeNotCovered, ProbeNotDisjoint}

\* C18: what the validator returns identifies the checks that failed: two
\* result structures for which it returns the same value fail the same
\* checks.
C18_StructuredDiagnostic ==
    pc = "report" =>
        \A probe \in ValidatorProbes :
            validate_waterfall_integrity(probe) = validation_passed =>
                FailedChecks(probe) = FailedChecks(extraction_results)

\* ------------------------------------------------------------------ dry run
\* C20: a run with --dry_run writes no file: no production CSV, no test CSV,
\* no residual file, no metrics report.
C20_DryRunWritesNothing ==
    dry_run =>
        /\ files = {}
        /\ metrics_report = <<>>
        /\ extraction_results.generated_files = <<>>
        /\ pc \notin {"validate", "report"}

C20_Witness ==
    /\ pc = "done"
    /\ dry_run
    /\ Complete
    /\ Tier(1) # <<>>
    /\ Tier(5) # <<>>

\* ------------------------------------------- generate_layer_3_push_csvs.py
\* Mutant: every action type has the same priority.
priority_map_flat(action_type) == 1

\* priority_map: a lower number is a higher priority.
priority_map(action_type) ==
    CASE action_type = "offer_created" -> 1
      [] action_type = "closet_add" -> 2
      [] action_type = "wishlist_add" -> 3

\* The loop of prioritize_user_actions over the first n records.  The dict
\* user_priority_actions is the sequence of its values in insertion order,
\* one per key (the user_id of the value); replacing a value keeps its place.
RECURSIVE prioritize_loop(_, _)
prioritize_loop(activity_data, n) ==
    IF n = 0 THEN <<>>
    ELSE LET user_priority_actions == prioritize_loop(activity_data, n - 1)
             record == activity_data[n]
             at == {i \in 1..Len(user_priority_actions) :
                       user_priority_actions[i].user_id = record.user_id}
         IN  IF at = {} THEN Append(user_priority_actions, record)
             ELSE LET i == CHOOSE j \in at : TRUE
                  IN  IF priority_map(record.action_type)
                             < priority_map(user_priority_actions[i].action_type)
                      THEN [user_priority_actions EXCEPT ![i] = record]
                      ELSE user_priority_actions

prioritize_user_actions(activity_data) ==
    prioritize_loop(activity_data, Len(activity_data))

\* The record enrich_activity_data builds for an activity record: the count
\* of the statistic its action type calls for.
enriched_record(record, inventory_counts, wishlist_counts) ==
    IF record.action_type = "closet_add"
    THEN [user_id |-> record.user_id, variantID |-> record.variant_id,
          wishlist_count |-> wishlist_counts[record.variant_id]]
    ELSE [user_id |-> record.user_id, variantID |-> record.variant_id,
          inventory_count |-> inventory_counts[record.variant_id]]

\* enrich_activity_data: complete is the users with a complete profile, the
\* counts are the answers of the two bulk statistics queries.  The result
\* has a key for each action type that holds a record.
enrich_activity_data(prioritized_actions, complete, inventory_counts, wishlist_counts) ==
    LET kept == SelectSeq(prioritized_actions, LAMBDA record : record.user_id \in complete)
    IN  [action_type \in {kept[i].action_type : i \in 1..Len(kept)} |->
            LET of_type == SelectSeq(kept, LAMBDA record : record.action_type = action_type)
            IN  [i \in 1..Len(of_type) |->
                    enriched_record(of_type[i], inventory_counts, wishlist_counts)]]

\* apply_demand_filtering
apply_demand_filtering(enriched_data) ==
    [action_type \in DOMAIN enriched_data |->
        SelectSeq(enriched_data[action_type],
                  LAMBDA record : IF action_type = "closet_add"
                                  THEN record.wishlist_count >= 2
                                  ELSE record.inventory_count >= 3)]

ActionTypes == {"offer_created", "closet_add", "wishlist_add"}

\* The lists get_daily_activity_data may return: any users (up to a renaming
\* of the ids) and action types; each record is about a variant of its own.
ActivityLists ==
    UNION {{[i \in 1..n |-> [user_id |-> user_ids[i], action_type |-> action_types[i],
                             variant_id |-> i]] :
            user_ids \in {u \in [1..n -> UserIds] : Canonical(u)},
            action_types \in [1..n -> ActionTypes]} : n \in 0..MaxActivities}

InitLayer3 ==
    /\ db_users = <<>>
    /\ db_closet = {}
    /\ db_bio = {}
    /\ db_offers = {}
    /\ db_wishlist = {}
    /\ dry_run \in BOOLEAN
    /\ pc = "layer_3"
    /\ users = <<>>
    /\ remaining_users = <<>>
    /\ extraction_results = NoResults
    /\ last_check = NoCheck
    /\ last_lookup = NoLookupCall
    /\ lookup_call = NoCall
    /\ check_call = NoCheck
    /\ \E activity_data \in ActivityLists :
           layer_3 = [NoLayer3 EXCEPT !.stage = "fetched", !.activity_data = activity_data]
    /\ layer_2 = NoLayer2
    /\ ab_tests = NoAbTests
    /\ phase_1 = NoPhase1
    /\ files = {}
    /\ validation_passed = FALSE
    /\ metrics_report = <<>>
    /\ exit_code = -1
    /\ failed = {}

\* main of the layer 3 script: no activity, lines 488-490
NoActivityReturn ==
    /\ layer_3.stage = "fetched"
    /\ layer_3.activity_data = <<>>
    /\ layer_3' = [layer_3 EXCEPT !.stage = "done"]
    /\ UNCHANGED <<store, dry_run, run, lookup_call, check_call, layer_2, ab_tests, phase_1>>

\* Step 2
Prioritize ==
    /\ layer_3.stage = "fetched"
    /\ layer_3.activity_data # <<>>
    /\ layer_3' = [layer_3 EXCEPT
                      !.stage = "prioritized",
                      !.prioritized_actions = prioritize_user_actions(layer_3.activity_data)]
    /\ UNCHANGED <<store, dry_run, run, lookup_call, check_call, layer_2, ab_tests, phase_1>>

\* lines 505-507
Layer3DryRunReturn ==
    /\ layer_3.stage = "prioritized"
    /\ dry_run
    /\ layer_3' = [layer_3 EXCEPT !.stage = "done"]
    /\ UNCHANGED <<store, dry_run, run, lookup_call, check_call, layer_2, ab_tests, phase_1>>

\* Step 3
Enrich ==
    /\ layer_3.stage = "prioritized"
    /\ ~dry_run
    /\ LET prioritized_actions == layer_3.prioritized_actions
           variants == {prioritized_actions[i].variant_id :
                           i \in 1..Len(prioritized_actions)}
           user_ids == {prioritized_actions[i].user_id :
                           i \in 1..Len(prioritized_actions)}
       IN  \E complete \in SUBSET user_ids,
              inventory_counts \in [variants -> {2, 3}],
              wishlist_counts \in [variants -> {1, 2}] :
               layer_3' = [layer_3 EXCEPT
                              !.stage = "enriched",
                              !.enriched_data =
                                  enrich_activity_data(prioritized_actions, complete,
                                                       inventory_counts, wishlist_counts)]
    /\ UNCHANGED <<store, dry_run, run, lookup_call, check_call, layer_2, ab_tests, phase_1>>

\* Step 3 when the profile query or a statistics query fails: execute_query
\* returns None, the loop over it raises and nothing catches it.
EnrichFails ==
    /\ layer_3.stage = "prioritized"
    /\ ~dry_run
    /\ layer_3' = [layer_3 EXCEPT !.stage = "crashed"]
    /\ UNCHANGED <<store, dry_run, run, lookup_call, check_call, layer_2, ab_tests, phase_1>>

\* Step 4
DemandFilter ==
    /\ layer_3.stage = "enriched"
    /\ layer_3' = [layer_3 EXCEPT
                      !.stage = "filtered",
                      !.filtered_data = apply_demand_filtering(layer_3.enriched_data)]
    /\ UNCHANGED <<store, dry_run, run, lookup_call, check_call, layer_2, ab_tests, phase_1>>

NextLayer3 ==
    \/ NoActivityReturn
    \/ Prioritize
    \/ Layer3DryRunReturn
    \/ Enrich
    \/ EnrichFails
    \/ DemandFilter

SpecLayer3 == InitLayer3 /\ [][NextLayer3]_vars

\* The records of a user in the fetched list, as positions.
RecordsOf(user_id) ==
    {i \in 1..Len(layer_3.activity_data) : layer_3.activity_data[i].user_id = user_id}

\* The intent rank of an action type: offer_created over closet_add over
\* wishlist_add.
IntentRank(action_type) ==
    IF action_type = "offer_created" THEN 1
    ELSE IF action_type = "closet_add" THEN 2 ELSE 3

\* The user's records of the highest intent.
BestRecordsOf(user_id) ==
    {i \in RecordsOf(user_id) :
        \A j \in RecordsOf(user_id) :
            IntentRank(layer_3.activity_data[i].action_type)
                <= IntentRank(layer_3.activity_data[j].action_type)}

\* No user_id is in two lists of a per-action-type result, or twice in one.
Exclusive(data) ==
    \A a, b \in DOMAIN data :
        \A i \in 1..Len(data[a]), j \in 1..Len(data[b]) :
            data[a][i].user_id = data[b][j].user_id => (a = b /\ i = j)

\* C19: prioritize_user_actions keeps one record for each user_id of the
\* list, the first of the user's records of the highest intent (offer_created
\* over closet_add over wishlist_add), and after the enrichment and after the
\* demand filtering no user_id is in the lists of two action types.
C19_Layer3Exclusive ==
    /\ layer_3.stage \in {"prioritized", "enriched", "filtered"} =>
           LET kept == layer_3.prioritized_actions
               user_ids == {layer_3.activity_data[i].user_id :
                               i \in 1..Len(layer_3.activity_data)}
           IN  /\ {kept[i].user_id : i \in 1..Len(kept)} = user_ids
               /\ Len(kept) = Cardinality(user_ids)
               /\ \A i \in 1..Len(kept) :
                      kept[i] = layer_3.activity_data[First(BestRecordsOf(kept[i].user_id))]
    /\ layer_3.stage \in {"enriched", "filtered"} => Exclusive(layer_3.enriched_data)
    /\ layer_3.stage = "filtered" => Exclusive(layer_3.filtered_data)

C19_Witness ==
    /\ layer_3.stage = "filtered"
    /\ Len(layer_3.activity_data) = 3
    /\ layer_3.activity_data[1].action_type = "wishlist_add"
    /\ layer_3.activity_data[3].action_type = "offer_created"
    /\ layer_3.activity_data[1].user_id = layer_3.activity_data[3].user_id
    /\ DOMAIN layer_3.filtered_data = {"offer_created", "closet_add"}
    /\ Len(layer_3.filtered_data["offer_created"]) = 1
    /\ Len(layer_3.filtered_data["closet_add"]) = 1

\* ------------------------------------------------ the three-entity scenario
\* Runs over three entities, with any store.
InitThree ==
    /\ db_users = <<1, 2, 3>>
    /\ StoreOver(Range(db_users))
    /\ dry_run \in BOOLEAN
    /\ RunStart

SpecThree == InitThree /\ [][Next]_vars

\* The extraction step whose completion check fn is (0 when no check was
\* called).
CheckLevel(fn) ==
    CASE fn = "closet" -> 1
      [] fn = "bio" -> 2
      [] fn = "offer" -> 3
      [] fn = "wishlist" -> 4
      [] OTHER -> 0

\* C21: a step that is entered with nothing remaining (the step before
\* recorded 0 remaining) records an empty tier, an extracted count of 0 and 0
\* remaining, and neither its completion check nor its target shoe lookup is
\* called: the last check and the last lookup of the run are those of an
\* earlier step.  With three entities all extracted at level 1 the recorded
\* counts are [3,0,0,0,0,0] and the validation passes.
C21_EmptyRemaining ==
    LET ex == extraction_results.extractions
    IN  /\ \A k \in 2..Len(ex) :
               ex[k - 1].remaining_after = 0 =>
                   /\ Tier(k) = <<>>
                   /\ ex[k].extracted_count = 0
                   /\ ex[k].remaining_after = 0
                   /\ CheckLevel(last_check.fn) < k
                   /\ last_lookup.level < k
                   /\ Complete => Residual = <<>>
        /\ (Complete /\ Len(Tier(1)) = 3) =>
               /\ remaining_counts(extraction_results) = <<3, 0, 0, 0, 0, 0>>
               /\ pc = "validate" => validate_waterfall_integrity(extraction_results)
               /\ pc = "report" => validation_passed
               /\ (pc = "done" /\ ~dry_run) => (ReportedValid /\ exit_code = 0)

C21_Witness ==
    /\ pc = "done"
    /\ ~dry_run
    /\ Complete
    /\ Len(Tier(1)) = 3
    /\ last_check.fn = "closet"
    /\ last_lookup = NoLookupCall
    /\ remaining_counts(extraction_results) = <<3, 0, 0, 0, 0, 0>>
    /\ ReportedValid

\* ------------------------------------------------ a completion check by itself
CheckNames == <<"closet", "bio", "offer", "wishlist">>

\* A call of one of the four completion checks with any list of ids (the
\* empty list, repeated ids and an empty id included), against any store.
InitCheck ==
    /\ db_users = <<>>
    /\ \E user_ids \in PopulationsAnyIds :
           /\ db_closet \in SUBSET (Range(user_ids) \ {EmptyId})
           /\ db_bio \in SUBSET (Range(user_ids) \ {EmptyId})
           /\ db_offers \in SUBSET (Range(user_ids) \ {EmptyId})
           /\ db_wishlist \in SUBSET (Range(user_ids) \ {EmptyId})
           /\ \E k \in 1..4 :
                  check_call = [NoCheck EXCEPT !.fn = CheckNames[k], !.user_ids = user_ids]
    /\ dry_run = FALSE
    /\ pc = "check"
    /\ users = <<>>
    /\ remaining_users = <<>>
    /\ extraction_results = NoResults
    /\ last_check = NoCheck
    /\ last_lookup = NoLookupCall
    /\ lookup_call = NoCall
    /\ layer_3 = NoLayer3
    /\ layer_2 = NoLayer2
    /\ ab_tests = NoAbTests
    /\ phase_1 = NoPhase1
    /\ files = {}
    /\ validation_passed = FALSE
    /\ metrics_report = <<>>
    /\ exit_code = -1
    /\ failed = {}

\* The call: db_ok is the outcome of its storage query, when it issues one.
CompletionCheck(db_ok) ==
    /\ pc = "check"
    /\ check_call.user_ids = <<>> => db_ok
    /\ check_call' = CheckCall(check_call.fn, check_call.user_ids,
                               Have(CheckLevel(check_call.fn)), db_ok)
    /\ pc' = "done"
    /\ UNCHANGED <<store, dry_run, lookup_call, layer_3, layer_2, ab_tests, phase_1,
                   users, remaining_users,
                   extraction_results, last_check, last_lookup, files,
                   validation_passed, metrics_report, exit_code, failed>>

NextCheck == \E db_ok \in BOOLEAN : CompletionCheck(db_ok)

SpecCheck == InitCheck /\ [][NextCheck]_vars

\* C22: a completion check called with a non-empty list of ids issues one
\* storage query, for the whole list, whether the query succeeds or fails;
\* called with an empty list it issues none and returns an empty mapping.
C22_OneQueryPerCheck ==
    (pc = "done" /\ check_call.fn # "none") =>
        IF check_call.user_ids = <<>>
        THEN /\ check_call.queries = <<>>
             /\ DOMAIN check_call.completion = {}
        ELSE /\ Len(check_call.queries) = 1
             /\ check_call.queries[1].user_ids = check_call.user_ids
             /\ check_call.queries[1].failed = check_call.isNone
             /\ DOMAIN check_call.completion = Range(check_call.user_ids)

C22_Witness ==
    /\ pc = "done"
    /\ check_call.fn = "offer"
    /\ Len(check_call.user_ids) = 2
    /\ check_call.isNone
    /\ Len(check_call.queries) = 1

\* ------------------------------------------------ the callers of the lookup
\* A step of the run calls the lookup only at the levels 3, 4 and 5, with the
\* ids of the rows the level extracts, in their order; when the level does
\* not extract all of its input, that is not the list of ids of the input.
\* The rows of the levels 1 and 2 have no target shoe field.
LookupByLateSteps ==
    /\ last_lookup' # last_lookup =>
           /\ PcRank \in 3..5
           /\ last_lookup'.level = PcRank
           /\ LET extracted == extraction_results'.extractions[PcRank].extracted_users
              IN  /\ last_lookup'.user_ids =
                         [i \in 1..Len(extracted) |-> users'[extracted[i]].user_id]
                  /\ extracted # remaining_users =>
                         last_lookup'.user_ids # IdList(remaining_users)
    /\ DOMAIN users' = DOMAIN users =>
           \A r \in DOMAIN users :
               users'[r].new_user_level \in {1, 2} =>
                   /\ users'[r].top_target_shoe = "unset"
                   /\ users'[r].target_variantID = "unset"

\* C23: the target shoe lookup is called by the steps 3, 4 and 5 only, each
\* time with exactly the ids of the users the step extracted and not with
\* those of the list the step was given; the users extracted at the levels 1
\* and 2 never get target shoe fields.
C23_LookupForExtractedOnly == [][LookupByLateSteps]_vars

C23_Witness ==
    /\ pc = "level_5"
    /\ last_lookup.level = 4
    /\ Len(last_lookup.user_ids) = 1
    /\ Len(remaining_users) = 1
    /\ \E r \in DOMAIN users : r \notin Range(Tier(4)) /\ users[r].new_user_level = 0

\* ------------------------------------------------ the queries of the lookup
\* The users of the call that a source before source k has answered for.
ResolvedBefore(k) ==
    {id \in Range(lookup_call.user_ids) : \E j \in Answering(id) : j < k}

\* The users of the call left for source k, in the order of the call.
LeftFor(k) ==
    SelectSeq(lookup_call.user_ids, LAMBDA id : id \notin ResolvedBefore(k))

\* C24: in the lookup, the query of a fallback source (recent offer, wishlist
\* item, comprehensive offer search) is issued with the ids no earlier source
\* has answered for, and with those only; it is issued exactly when there is
\* such an id; the queries are issued in the order of the sources, each once
\* at most; and the row returned for a user is the one of the first source
\* that answered for the user: no later source replaces it.
C24_FallbackOnlyUnresolved ==
    lookup_call.returned =>
        LET queries == lookup_call.queries
        IN  /\ \A i \in 1..Len(queries) :
                   /\ queries[i].user_ids = LeftFor(queries[i].source)
                   /\ queries[i].user_ids # <<>>
                   /\ \A j \in 1..Len(queries) :
                          i < j => queries[i].source < queries[j].source
            /\ \A k \in 1..4 :
                   (\E i \in 1..Len(queries) : queries[i].source = k)
                       <=> LeftFor(k) # <<>>
            /\ \A id \in DOMAIN lookup_call.target_shoes :
                   /\ Answering(id) # {}
                   /\ lookup_call.target_shoes[id].source =
                          SourceName[First(Answering(id))]

C24_Witness ==
    /\ lookup_call.returned
    /\ Len(lookup_call.user_ids) = 2
    /\ Len(lookup_call.queries) = 3
    /\ lookup_call.queries[2].user_ids = <<2>>
    /\ lookup_call.queries[3].source = 3
    /\ Holding(1) = {1, 2, 4}
    /\ lookup_call.target_shoes[1].source = "desired_item"
    /\ lookup_call.target_shoes[2].source = "wishlist_item"

\* ------------------------------------------- generate_layer_2_push_csv.py
MaxRows == 3         \* user-product rows handed to the layer 2 matching, at most
MaxProducts == 3     \* products (product ids are 1..MaxProducts)

ProductIds == 1..MaxProducts

\* The trending_rank column of get_trending_products_weekly.
TrendingRank(rank_number) ==
    CASE rank_number = 1 -> "1st"
      [] rank_number = 2 -> "2nd"
      [] rank_number = 3 -> "3rd"
      [] OTHER -> "nth"

\* product_rank_map: the entry of the last row of the list for the product.
product_rank_map(trending_products) ==
    [product_id \in {trending_products[i].product_id : i \in 1..Len(trending_products)} |->
        LET last == CHOOSE i \in 1..Len(trending_products) :
                        /\ trending_products[i].product_id = product_id
                        /\ \A j \in (i + 1)..Len(trending_products) :
                               trending_products[j].product_id # product_id
        IN  [rank_number |-> trending_products[last].rank_number,
             trending_rank |-> trending_products[last].trending_rank]]

\* user_products: the keys in the order of their first row, and the rows of
\* each key in the order of the list.
user_products_keys(user_data) ==
    LET first == SelectSeq([i \in 1..Len(user_data) |-> i],
                     LAMBDA i : \A j \in 1..(i - 1) :
                                    user_data[j].user_id # user_data[i].user_id)
    IN  [k \in 1..Len(first) |-> user_data[first[k]].user_id]

user_products(user_data, user_id) ==
    SelectSeq(user_data, LAMBDA user : user.user_id = user_id)

\* Mutant: the comparison is the other way round.
better_rank_reversed(rank_number, best) ==
    ~best.found \/ rank_number > best.best_rank

\* rank_number < best_rank, best_rank being float('inf') while no product is
\* found.
better_rank(rank_number, best) ==
    ~best.found \/ rank_number < best.best_rank

\* The inner loop over the first n rows of a user.
RECURSIVE best_product_loop(_, _, _)
best_product_loop(products, rank_map, n) ==
    IF n = 0 THEN [found |-> FALSE, best_rank |-> 0, best_product |-> <<>>]
    ELSE LET best == best_product_loop(products, rank_map, n - 1)
             product == products[n]
             product_id == product.product_id
         IN  IF product_id \in DOMAIN rank_map
                    /\ better_rank(rank_map[product_id].rank_number, best)
             THEN [found |-> TRUE,
                   best_rank |-> rank_map[product_id].rank_number,
                   best_product |->
                       [product EXCEPT
                           !.trending_rank = rank_map[product_id].trending_rank]]
             ELSE best

match_users_to_highest_ranked_products(user_data, trending_products) ==
    LET rank_map == product_rank_map(trending_products)
        keys == user_products_keys(user_data)
        best == [k \in 1..Len(keys) |->
                    LET products == user_products(user_data, keys[k])
                    IN  best_product_loop(products, rank_map, Len(products))]
        kept == SelectSeq([k \in 1..Len(keys) |-> k], LAMBDA k : best[k].found)
    IN  [i \in 1..Len(kept) |-> best[kept[i]].best_product]

\* The user-product rows: any users (up to a renaming of the ids) and any
\* products; variant_id tells the rows apart.
UserProductRows ==
    UNION {{[i \in 1..n |-> [user_id |-> user_ids[i], product_id |-> product_ids[i],
                             variant_id |-> i, trending_rank |-> "none"]] :
            user_ids \in {u \in [1..n -> UserIds] : Canonical(u)},
            product_ids \in [1..n -> ProductIds]} : n \in 0..MaxRows}

\* The rankings: some of the products, in the order of their rank.
Rankings ==
    {[i \in 1..Len(ranked) |->
         [product_id |-> ranked[i], rank_number |-> i, trending_rank |-> TrendingRank(i)]] :
     ranked \in {r \in SeqsUpTo(ProductIds, MaxProducts) :
                    \A i, j \in 1..Len(r) : i # j => r[i] # r[j]}}

InitLayer2 ==
    /\ db_users = <<>>
    /\ db_closet = {}
    /\ db_bio = {}
    /\ db_offers = {}
    /\ db_wishlist = {}
    /\ dry_run = FALSE
    /\ pc = "layer_2"
    /\ users = <<>>
    /\ remaining_users = <<>>
    /\ extraction_results = NoResults
    /\ last_check = NoCheck
    /\ last_lookup = NoLookupCall
    /\ lookup_call = NoCall
    /\ check_call = NoCheck
    /\ layer_3 = NoLayer3
    /\ \E user_data \in UserProductRows, trending_products \in Rankings :
           layer_2 = [NoLayer2 EXCEPT !.user_data = user_data,
                                      !.trending_products = trending_products]
    /\ ab_tests = NoAbTests
    /\ phase_1 = NoPhase1
    /\ files = {}
    /\ validation_passed = FALSE
    /\ metrics_report = <<>>
    /\ exit_code = -1
    /\ failed = {}

MatchUsers ==
    /\ pc = "layer_2"
    /\ layer_2' = [layer_2 EXCEPT
                      !.returned = TRUE,
                      !.final_users = match_users_to_highest_ranked_products(
                                          layer_2.user_data, layer_2.trending_products)]
    /\ pc' = "done"
    /\ UNCHANGED <<store, dry_run, lookup_call, check_call, layer_3, ab_tests, phase_1,
                   users, remaining_users, extraction_results, last_check, last_lookup,
                   files, validation_passed, metrics_report, exit_code, failed>>

SpecLayer2 == InitLayer2 /\ [][MatchUsers]_vars

\* The rank of a product in the ranking handed to the matching (0 when it is
\* not ranked).
RankOf(product_id) ==
    LET at == {i \in 1..Len(layer_2.trending_products) :
                  layer_2.trending_products[i].product_id = product_id}
    IN  IF at = {} THEN 0
        ELSE layer_2.trending_products[CHOOSE i \in at : TRUE].rank_number

\* The rows of a user whose product is ranked, as positions of user_data.
RankedRowsOf(user_id) ==
    {i \in 1..Len(layer_2.user_data) :
        /\ layer_2.user_data[i].user_id = user_id
        /\ RankOf(layer_2.user_data[i].product_id) # 0}

\* C25: the matching returns one row at most for each user_id; a user is in
\* the result exactly when one of the user's rows has a ranked product, and
\* the row returned is a row of that user whose product has the lowest
\* rank_number among the user's ranked products, with the trending_rank of
\* that product.
C25_HighestRankedProduct ==
    layer_2.returned =>
        LET final_users == layer_2.final_users
            user_data == layer_2.user_data
        IN  /\ \A i, j \in 1..Len(final_users) :
                   final_users[i].user_id = final_users[j].user_id => i = j
            /\ {final_users[i].user_id : i \in 1..Len(final_users)} =
                   {user_data[i].user_id : i \in UNION {RankedRowsOf(id) : id \in UserIds}}
            /\ \A i \in 1..Len(final_users) :
                   \E r \in RankedRowsOf(final_users[i].user_id) :
                       /\ final_users[i] =
                              [user_data[r] EXCEPT
                                  !.trending_rank = TrendingRank(RankOf(user_data[r].product_id))]
                       /\ \A q \in RankedRowsOf(final_users[i].user_id) :
                              RankOf(user_data[r].product_id)
                                  <= RankOf(user_data[q].product_id)

C25_Witness ==
    /\ layer_2.returned
    /\ Len(layer_2.user_data) = 3
    /\ Len(layer_2.trending_products) = 2
    /\ layer_2.user_data[1].user_id = layer_2.user_data[2].user_id
    /\ RankOf(layer_2.user_data[1].product_id) = 2
    /\ RankOf(layer_2.user_data[2].product_id) = 1
    /\ RankOf(layer_2.user_data[3].product_id) = 0
    /\ layer_2.user_data[3].user_id # layer_2.user_data[1].user_id
    /\ Len(layer_2.final_users) = 1
    /\ layer_2.final_users[1].variant_id = 2

\* ------------------------------------------------------------ the residual
\* C26: level 5 extracts every user that remains after level 4, and after a
\* complete run over a population whose user_ids are all non-empty the
\* residual list is empty: level 5 records 0 remaining and the residual file
\* is never written.
C26_ResidualEmpty ==
    /\ Complete => Tier(5) = remaining_users
    /\ (\A i \in 1..Len(db_users) : Truthy(db_users[i])) =>
           /\ ResidualFile \notin files
           /\ Complete =>
                  /\ Residual = <<>>
                  /\ extraction_results.extractions[5].remaining_after = 0

C26_Witness ==
    /\ pc = "done"
    /\ ~dry_run
    /\ Complete
    /\ Len(db_users) = 2
    /\ \A i \in 1..Len(db_users) : Truthy(db_users[i])
    /\ Len(Tier(5)) = 2
    /\ Residual = <<>>
    /\ ProdFile(5) \in files
    /\ ResidualFile \notin files

\* ------------------------------------------------- what a True verdict shows
\* The user_ids of the five tier lists and the residual list, one after the
\* other.
OutputIds ==
    IdList(Tier(1) \o Tier(2) \o Tier(3) \o Tier(4) \o Tier(5) \o Residual)

\* C27: when the validator has returned True for the result of a run, no
\* user_id occurs more than once in the concatenation of the five tier lists
\* and the residual list.
C27_ValidMeansNoRepeatedId ==
    (pc \in {"report", "done"} /\ Complete /\ validation_passed) =>
        \A i, j \in 1..Len(OutputIds) : OutputIds[i] = OutputIds[j] => i = j

\* ------------------------------------------------ a store that changes
\* Another process changes the store while the run is between two steps: a
\* user of the population, extracted already or not, gains or loses a closet
\* item, the bio, an offer or a wishlist item, any number of times.  The
\* checks and the lookup read the facts of a user by the user's id, so the
\* user who changes is the same for the whole run, the user of the first row.
\* The changes come after step 1 and after step 2: each table is read by one
\* step only, so a later change of a table not read yet shows as one made
\* here, and a change of a table read already shows nowhere.
StoreChange ==
    /\ pc \in {"level_2", "level_3"}
    /\ \E k \in 1..4 :
           LET id == db_users[1]
               flip(have) == IF id \in have THEN have \ {id} ELSE have \cup {id}
           IN  /\ db_closet' = IF k = 1 THEN flip(db_closet) ELSE db_closet
               /\ db_bio' = IF k = 2 THEN flip(db_bio) ELSE db_bio
               /\ db_offers' = IF k = 3 THEN flip(db_offers) ELSE db_offers
               /\ db_wishlist' = IF k = 4 THEN flip(db_wishlist) ELSE db_wishlist
    /\ UNCHANGED <<db_users, dry_run, calls, run>>

NextLive ==
    \/ Next
    \/ StoreChange

SpecLive == Init /\ [][NextLive]_vars

\* C28: whatever the store becomes between the steps of a run, after the
\* five steps every row of the initial population is in exactly one of the
\* five tier lists, once, every user_id is in exactly one tier, and nothing
\* is left in the residual list.
C28_PartitionUnderChanges ==
    Complete =>
        /\ \A r \in DOMAIN users :
               SumSeq([k \in 1..5 |-> Occurrences(r, Tier(k))]) = 1
        /\ \A id \in Range(db_users) :
               Cardinality({k \in 1..5 : id \in IdsOf(Tier(k))}) = 1
        /\ Residual = <<>>

C28_Witness ==
    /\ pc = "done"
    /\ Complete
    /\ failed = {}
    /\ Len(users) = 2
    /\ users[1].new_user_level = 1
    /\ UserId(1) \in db_closet \cap db_bio
    /\ users[2].new_user_level = 3

\* ------------------------------------ email-impact/phase_1_mailjet_extraction.py
MaxCampaigns == 3    \* campaigns handed to identify_ab_tests, at most
MaxTicks == 3        \* send times are 0, 2, ..., 2 * MaxTicks minutes

\* The defaults of identify_ab_tests.
time_window_minutes == 5

size_tolerance_percent == 10

SendTimes == {2 * t : t \in 0..MaxTicks}

\* Audience sizes: 108 is within 10 percent of 100 and of 117, which are not
\* within 10 percent of each other; no size is on a tolerance limit of
\* another (the code computes the limits in floating point).
AudienceSizes == {100, 108, 117}

\* lower_bound <= audience_size <= upper_bound, in hundredths.
within_size_tolerance(audience_size, current_size) ==
    /\ 100 * audience_size >= current_size * (100 - size_tolerance_percent)
    /\ 100 * audience_size <= current_size * (100 + size_tolerance_percent)

\* actual_matches.index for the campaign at position i of the sorted frame.
actual_matches(df, i) ==
    {j \in 1..Len(df) :
        /\ df[j].send_timestamp > df[i].send_timestamp
        /\ df[j].send_timestamp <= df[i].send_timestamp + time_window_minutes
        /\ within_size_tolerance(df[j].audience_size, df[i].audience_size)}

\* The loop of identify_ab_tests after its first i iterations.  The test id
\* "ab_test_<n>" is n, and None is 0.
RECURSIVE ab_test_loop(_, _)
ab_test_loop(df, i) ==
    IF i = 0
    THEN [test_group_id |-> 0, subject_line_test_id |-> [j \in 1..Len(df) |-> 0],
          processed_indices |-> {}]
    ELSE LET loop == ab_test_loop(df, i - 1)
             matches == actual_matches(df, i)
         IN  IF i \in loop.processed_indices \/ matches = {} THEN loop
             ELSE [test_group_id |-> loop.test_group_id + 1,
                   subject_line_test_id |->
                       [j \in 1..Len(df) |->
                           IF j = i \/ j \in matches THEN loop.test_group_id + 1
                           ELSE loop.subject_line_test_id[j]],
                   processed_indices |-> loop.processed_indices \cup {i} \cup matches]

\* sort_values(by='send_timestamp'): the orders of the rows it may give (the
\* default sort is not stable, rows with the same send time come in any
\* order).
sort_values(df) ==
    {[i \in 1..Len(df) |-> df[p[i]]] :
     p \in {q \in [1..Len(df) -> 1..Len(df)] :
               /\ \A i, j \in 1..Len(df) : q[i] = q[j] => i = j
               /\ \A i, j \in 1..Len(df) :
                      i < j => df[q[i]].send_timestamp <= df[q[j]].send_timestamp}}

\* identify_ab_tests, for one of the orders of the sort.
identify_ab_tests(sorted) ==
    LET loop == ab_test_loop(sorted, Len(sorted))
    IN  [i \in 1..Len(sorted) |->
            [sorted[i] EXCEPT !.subject_line_test_id = loop.subject_line_test_id[i]]]

\* The campaign summaries main() builds: any send times and audience sizes.
InitAbTests ==
    /\ db_users = <<>>
    /\ db_closet = {}
    /\ db_bio = {}
    /\ db_offers = {}
    /\ db_wishlist = {}
    /\ dry_run = FALSE
    /\ pc = "ab_tests"
    /\ users = <<>>
    /\ remaining_users = <<>>
    /\ extraction_results = NoResults
    /\ last_check = NoCheck
    /\ last_lookup = NoLookupCall
    /\ lookup_call = NoCall
    /\ check_call = NoCheck
    /\ layer_3 = NoLayer3
    /\ layer_2 = NoLayer2
    /\ \E n \in 1..MaxCampaigns :
       \E times \in [1..n -> SendTimes], sizes \in [1..n -> AudienceSizes] :
           ab_tests = [NoAbTests EXCEPT !.campaigns_df =
                           [i \in 1..n |->
                               [campaign_id |-> i, send_timestamp |-> times[i],
                                audience_size |-> sizes[i], subject_line_test_id |-> 0]]]
    /\ phase_1 = NoPhase1
    /\ files = {}
    /\ validation_passed = FALSE
    /\ metrics_report = <<>>
    /\ exit_code = -1
    /\ failed = {}

IdentifyAbTests ==
    /\ pc = "ab_tests"
    /\ \E sorted \in sort_values(ab_tests.campaigns_df) :
           ab_tests' = [returned |-> TRUE, campaigns_df |-> identify_ab_tests(sorted)]
    /\ pc' = "done"
    /\ UNCHANGED <<store, dry_run, lookup_call, check_call, layer_3, layer_2, phase_1,
                   users, remaining_users, extraction_results, last_check, last_lookup,
                   files, validation_passed, metrics_report, exit_code, failed>>

SpecAbTests == InitAbTests /\ [][IdentifyAbTests]_vars

\* C29: after identify_ab_tests every test id that is assigned is carried by
\* two campaigns at least.
C29_NoSingleTestGroup ==
    ab_tests.returned =>
        LET df == ab_tests.campaigns_df
        IN  \A i \in 1..Len(df) :
                df[i].subject_line_test_id # 0 =>
                    \E j \in 1..Len(df) :
                        /\ j # i
                        /\ df[j].subject_line_test_id = df[i].subject_line_test_id

\* ------------------------------------------------ phase 1: message histories
MaxMessages == 2     \* messages of one run, at most

MAX_WORKERS == 10

\* CampaignID of a message; 0 is a message without one (message.get gives
\* None).
CampaignIds == {0, 1}

\* What the messagehistory call answers for a message: an error, or a list of
\* events.
HistoryAnswers ==
    {[ok |-> FALSE, events |-> <<>>]}
        \cup {[ok |-> TRUE, events |-> e] : e \in {<<>>, <<"opened">>, <<"clicked">>}}

\* get_message_history: the error is caught and the default history returned.
get_message_history(answer) ==
    IF ~answer.ok THEN [opened |-> FALSE, clicked |-> FALSE]
    ELSE [opened |-> \E k \in 1..Len(answer.events) : answer.events[k] = "opened",
          clicked |-> \E k \in 1..Len(answer.events) : answer.events[k] = "clicked"]

process_message_with_history(message, answer) ==
    LET history == get_message_history(answer)
    IN  [campaign_id |-> message.CampaignID,
         opened |-> history.opened, clicked |-> history.clicked]

future_result_uncaught(message, answer) ==
    [raised |-> ~answer.ok, value |-> process_message_with_history(message, answer)]

\* What a future holds once its task has run: the record, or the exception
\* the task raised (none is raised: every message has an ID and
\* get_message_history catches the errors of the call).
future_result(message, answer) ==
    [raised |-> FALSE, value |-> process_message_with_history(message, answer)]

\* as_completed: the finished futures not yet yielded, in any order.
as_completed(futures) ==
    {i \in 1..Len(futures) : futures[i].state = "finished" /\ ~futures[i].yielded}

MessageLists ==
    UNION {{[i \in 1..n |-> [ID |-> i, CampaignID |-> c[i]]] : c \in [1..n -> CampaignIds]} :
           n \in 1..MaxMessages}

InitPhase1 ==
    /\ db_users = <<>>
    /\ db_closet = {}
    /\ db_bio = {}
    /\ db_offers = {}
    /\ db_wishlist = {}
    /\ dry_run = FALSE
    /\ pc = "phase_1"
    /\ users = <<>>
    /\ remaining_users = <<>>
    /\ extraction_results = NoResults
    /\ last_check = NoCheck
    /\ last_lookup = NoLookupCall
    /\ lookup_call = NoCall
    /\ check_call = NoCheck
    /\ layer_3 = NoLayer3
    /\ layer_2 = NoLayer2
    /\ ab_tests = NoAbTests
    /\ \E messages \in MessageLists, no_parallel \in BOOLEAN :
       \E histories \in [1..Len(messages) -> HistoryAnswers] :
           phase_1 = [NoPhase1 EXCEPT !.stage = "start", !.no_parallel = no_parallel,
                                      !.messages = messages, !.histories = histories]
    /\ files = {}
    /\ validation_passed = FALSE
    /\ metrics_report = <<>>
    /\ exit_code = -1
    /\ failed = {}

Phase1Rest ==
    UNCHANGED <<store, dry_run, lookup_call, check_call, layer_3, layer_2, ab_tests,
                users, remaining_users, extraction_results, last_check, last_lookup,
                files, validation_passed, metrics_report, exit_code, failed>>

\* One iteration of the sequential loop.
SequentialStep ==
    /\ pc = "phase_1"
    /\ phase_1.stage = "start"
    /\ phase_1.no_parallel
    /\ LET k == Len(phase_1.processed_data) + 1
           last == k = Len(phase_1.messages)
       IN  /\ phase_1' = [phase_1 EXCEPT
                   !.processed_data =
                       Append(@, process_message_with_history(phase_1.messages[k],
                                                              phase_1.histories[k])),
                   !.stage = IF last THEN "done" ELSE "start"]
           /\ pc' = IF last THEN "done" ELSE pc
    /\ Phase1Rest

\* executor.submit for the next message.
Submit ==
    /\ pc = "phase_1"
    /\ phase_1.stage = "start"
    /\ ~phase_1.no_parallel
    /\ phase_1' = [phase_1 EXCEPT
            !.futures = Append(@, [state |-> "pending", yielded |-> FALSE]),
            !.stage = IF Len(phase_1.futures) + 1 = Len(phase_1.messages)
                      THEN "collect" ELSE "start"]
    /\ UNCHANGED pc
    /\ Phase1Rest

\* A free worker of the pool takes the oldest task of the queue.
WorkerStart ==
    /\ pc = "phase_1"
    /\ LET futures == phase_1.futures
           pending == {i \in 1..Len(futures) : futures[i].state = "pending"}
           running == {i \in 1..Len(futures) : futures[i].state = "running"}
       IN  /\ pending # {}
           /\ Cardinality(running) < MAX_WORKERS
           /\ LET i == CHOOSE j \in pending : \A l \in pending : j <= l
              IN  phase_1' = [phase_1 EXCEPT !.futures[i].state = "running"]
    /\ UNCHANGED pc
    /\ Phase1Rest

\* A task ends: its future is finished.
WorkerFinish ==
    /\ pc = "phase_1"
    /\ \E i \in 1..Len(phase_1.futures) :
           /\ phase_1.futures[i].state = "running"
           /\ phase_1' = [phase_1 EXCEPT !.futures[i].state = "finished"]
    /\ UNCHANGED pc
    /\ Phase1Rest

\* One iteration of the loop over as_completed(futures).
Collect ==
    /\ pc = "phase_1"
    /\ phase_1.stage = "collect"
    /\ \E i \in as_completed(phase_1.futures) :
           LET result == future_result(phase_1.messages[i], phase_1.histories[i])
               last == \A j \in 1..Len(phase_1.futures) :
                           j # i => phase_1.futures[j].yielded
           IN  /\ phase_1' = [phase_1 EXCEPT
                       !.futures[i].yielded = TRUE,
                       !.processed_data = IF result.raised THEN @
                                          ELSE Append(@, result.value),
                       !.stage = IF last THEN "done" ELSE "collect"]
               /\ pc' = IF last THEN "done" ELSE pc
    /\ Phase1Rest

NextPhase1 ==
    \/ SequentialStep
    \/ Submit
    \/ WorkerStart
    \/ WorkerFinish
    \/ Collect

SpecPhase1 == InitPhase1 /\ [][NextPhase1]_vars

\* What the sequential mode gives for the messages of the run.
SequentialData ==
    [i \in 1..Len(phase_1.messages) |->
        process_message_with_history(phase_1.messages[i], phase_1.histories[i])]

\* C30: at the end of the history fetching the parallel mode has one
\* processed record per message, the records of the sequential mode, each as
\* many times, in whatever order the tasks completed; the sequential mode has
\* them in the order of the messages.
C30_ParallelSameRecords ==
    phase_1.stage = "done" =>
        /\ Len(phase_1.processed_data) = Len(phase_1.messages)
        /\ \A i \in 1..Len(phase_1.messages) :
               Occurrences(SequentialData[i], phase_1.processed_data)
                   = Occurrences(SequentialData[i], SequentialData)
        /\ phase_1.no_parallel => phase_1.processed_data = SequentialData

\* A parallel run ends with the records in another order than the messages,
\* one of them from a history call that failed.
C30_Witness ==
    /\ phase_1.stage = "done"
    /\ ~phase_1.no_parallel
    /\ Len(phase_1.messages) >= 2
    /\ phase_1.processed_data # SequentialData
    /\ \E i \in 1..Len(phase_1.messages) : ~phase_1.histories[i].ok

====
